---------------------------- MODULE Spec2Model ----------------------------
(***************************************************************************)
(* Unity I2 translator: the task runner (hooks/useWorkerHandler.ts with    *)
(* public/workers/extractWorker.js and the page handler that drives it),   *)
(* the extractor and the merge engine.                                     *)
(*                                                                         *)
(* The foreground context is a JavaScript event loop: every handler (an    *)
(* API call, a timer callback, a message event, the effect cleanup) runs   *)
(* to completion, and the continuation of an `await` on a resolved promise *)
(* runs as a microtask before the next handler.                            *)
(***************************************************************************)
EXTENDS Integers, Sequences, FiniteSets, TLC

(* ------------------------------ bounds -------------------------------- *)

\* task submissions (createDownloadPromise and postMessage calls) issued over one run
MaxCalls == 3

Calls == 1..MaxCalls

(* ------------------------- program constants -------------------------- *)

\* useRef<number>(1)
FirstRequestId == 1

\* requestId of a message that carries none (undefined)
NoId == 0

PostTypes == {"EXTRACT", "APPLY_TRANSLATIONS", "OTHER"}

Unsettled == {"unused", "awaitInit", "pending"}

Settled == {"resolved", "timeout", "workerError", "cancelled", "commFailed", "notReady"}

(* ------------------------------- state -------------------------------- *)

VARIABLES
  mounted,         \* the owning component is mounted (cleanup has not run)
  initPromiseRef,  \* initPromiseRef.current is non-null
  initPromise,     \* the promise made by initWorker: "none", "pending", "resolved"
  worker,          \* "none", "loading", "running", "failed", "terminated"
  workerReady,     \* React state workerReady
  handshakeArmed,  \* the 1500 ms handshake timer is armed
  initFailed,      \* history: construction threw or the worker raised an error
  usedAfterFail,   \* history: a download was dispatched to the worker after initFailed
  nextRequestId,   \* nextRequestId.current
  ncalls,          \* createDownloadPromise calls made so far
  nposts,          \* postMessage calls made so far
  status,          \* status[c]: state of the promise returned to call c
  settles,         \* settles[c]: times resolve/reject was invoked on call c (capped at 2)
  reqId,           \* reqId[c]: the requestId captured by call c (NoId before registration)
  resolvers,       \* resolversRef.current: requestId -> call holding that entry
  timers,          \* calls whose timeout timer is armed
  awaiting,        \* continuations waiting on `await initWorker()`, in call order
  toWorker,        \* messages posted to the worker, not yet handled
  fromWorker,      \* messages posted by the worker, not yet delivered
  content,         \* store content: "orig", "applied", "reversed"
  pin,             \* arguments of the pipeline function under check (extract, merge)
  pout             \* its result: [done |-> FALSE] before the call

\* the task runner's state
rvars == <<mounted, initPromiseRef, initPromise, worker, workerReady, handshakeArmed,
           initFailed, usedAfterFail, nextRequestId, ncalls, nposts, status, settles,
           reqId, resolvers, timers, awaiting, toWorker, fromWorker, content>>

\* the pipeline call's state
pvars == <<pin, pout>>

vars == <<rvars, pvars>>

(* ------------------------------ helpers ------------------------------- *)

WorkerRefSet == worker \in {"loading", "running", "failed"}

\* a continuation of `await initWorker()` is runnable: it runs before any other handler
Runnable == initPromise = "resolved" /\ awaiting # <<>>

MapSet(m, k, v) == [i \in DOMAIN m \cup {k} |-> IF i = k THEN v ELSE m[i]]

MapDelete(m, k) == [i \in DOMAIN m \ {k} |-> m[i]]

Min2(n) == IF n >= 2 THEN 2 ELSE n

\* resolve/reject invoked on call c: the first invocation settles the promise
Settle(st, c, outcome) == [st EXCEPT ![c] = IF @ \in Unsettled THEN outcome ELSE @]

Bump(se, c) == [se EXCEPT ![c] = Min2(@ + 1)]

\* mutant: the request counter is read but not advanced
NextIdStuck(n) == n

\* nextRequestId.current++
NextId(n) == n + 1

\* resolve() of the initialization promise; a second resolve changes nothing
ResolveInit(p) == IF p = "pending" THEN "resolved" ELSE p

\* mutant: the handshake timer marks the worker ready but forgets to resolve
HandshakeNoResolve(p) == p

\* resolve() in the handshake timer's callback
HandshakeResolve(p) == ResolveInit(p)

RunnerInit ==
  /\ mounted = TRUE
  /\ initPromiseRef = FALSE
  /\ initPromise = "none"
  /\ worker = "none"
  /\ workerReady = FALSE
  /\ handshakeArmed = FALSE
  /\ initFailed = FALSE
  /\ usedAfterFail = FALSE
  /\ nextRequestId = FirstRequestId
  /\ ncalls = 0
  /\ nposts = 0
  /\ status = [c \in Calls |-> "unused"]
  /\ settles = [c \in Calls |-> 0]
  /\ reqId = [c \in Calls |-> NoId]
  /\ resolvers = <<>>
  /\ timers = {}
  /\ awaiting = <<>>
  /\ toWorker = <<>>
  /\ fromWorker = <<>>
  /\ content = "orig"

NoCall == [done |-> FALSE]

Init ==
  /\ RunnerInit
  /\ pin = NoCall
  /\ pout = NoCall


(* --------------------------- initWorker ------------------------------- *)

initVars == <<initPromiseRef, initPromise, worker, workerReady, handshakeArmed, initFailed>>

\* initWorker(): memoised; otherwise constructs the worker, installs the handlers and
\* arms the handshake timer, or (construction throws) resolves at once without a worker
InitWorker(ctorOk) ==
  IF initPromiseRef
  THEN UNCHANGED initVars
  ELSE IF ctorOk
       THEN /\ initPromiseRef' = TRUE
            /\ initPromise' = "pending"
            /\ worker' = "loading"
            /\ handshakeArmed' = TRUE
            /\ UNCHANGED <<workerReady, initFailed>>
       ELSE /\ initPromiseRef' = TRUE
            /\ initPromise' = "resolved"
            /\ workerReady' = FALSE
            /\ initFailed' = TRUE
            /\ UNCHANGED <<worker, handshakeArmed>>

(* ------------------------- foreground API calls ----------------------- *)

\* a caller invokes the hook's initWorker
CallInitWorker ==
  /\ mounted /\ ~Runnable
  /\ \E ctorOk \in BOOLEAN : InitWorker(ctorOk)
  /\ UNCHANGED <<mounted, usedAfterFail, nextRequestId, ncalls, nposts, status, settles,
                 reqId, resolvers, timers, awaiting, toWorker, fromWorker, content>>
  /\ UNCHANGED pvars

\* postMessage(msg): await initWorker(), then post
CallPostMessage ==
  /\ mounted /\ ~Runnable
  /\ ncalls + nposts < MaxCalls
  /\ \E ctorOk \in BOOLEAN : InitWorker(ctorOk)
  /\ \E t \in PostTypes : awaiting' = Append(awaiting, [kind |-> "post", type |-> t, call |-> 0])
  /\ nposts' = nposts + 1
  /\ UNCHANGED <<mounted, usedAfterFail, nextRequestId, ncalls, status, settles,
                 reqId, resolvers, timers, toWorker, fromWorker, content>>
  /\ UNCHANGED pvars

\* createDownloadPromise(content): the part before `await initWorker()`
BeginDownloadPromise ==
  /\ ncalls + nposts < MaxCalls
  /\ \E ctorOk \in BOOLEAN : InitWorker(ctorOk)
  /\ ncalls' = ncalls + 1
  /\ status' = [status EXCEPT ![ncalls + 1] = "awaitInit"]
  /\ awaiting' = Append(awaiting, [kind |-> "gen", type |-> "GENERATE_REVERSED", call |-> ncalls + 1])

\* a caller invokes the hook's createDownloadPromise directly
CallCreateDownloadPromise ==
  /\ mounted /\ ~Runnable
  /\ BeginDownloadPromise
  /\ UNCHANGED <<mounted, usedAfterFail, nextRequestId, nposts, settles,
                 reqId, resolvers, timers, toWorker, fromWorker, content>>
  /\ UNCHANGED pvars

\* handleDownloadReversed with worker mode on and workerReady: goes to the worker
DownloadReversedWorker ==
  /\ mounted /\ ~Runnable
  /\ workerReady
  /\ BeginDownloadPromise
  /\ usedAfterFail' = (usedAfterFail \/ initFailed)
  /\ UNCHANGED <<mounted, nextRequestId, nposts, settles,
                 reqId, resolvers, timers, toWorker, fromWorker, content>>
  /\ UNCHANGED pvars

\* handleDownloadReversed otherwise: generateReversedContent in-process, then download;
\* the store is not written
DownloadReversedSync ==
  /\ mounted /\ ~Runnable
  /\ \E useWorkerMode \in BOOLEAN : ~(useWorkerMode /\ workerReady)
  /\ UNCHANGED vars

(* --------------------- continuations (microtasks) --------------------- *)

\* mutant: the timeout timer is never armed
ArmTimerNever(ts, c) == ts

\* window.setTimeout(..., timeoutMs) of call c
ArmTimer(ts, c) == ts \cup {c}

\* postMessage(msg) after the await: workerRef.current?.postMessage(msg)
ContinuePost(k, sendOk) ==
  /\ IF WorkerRefSet /\ sendOk
     THEN toWorker' = Append(toWorker, [type |-> k.type, requestId |-> NoId])
     ELSE UNCHANGED toWorker
  /\ UNCHANGED <<nextRequestId, status, settles, reqId, resolvers, timers>>

\* createDownloadPromise after the await: reject without a worker, else take an id,
\* arm the timeout, register and send; a failed send unregisters and rejects
ContinueGen(k, sendOk) ==
  LET c == k.call
      id == nextRequestId
  IN IF ~WorkerRefSet
     THEN /\ status' = Settle(status, c, "notReady")
          /\ settles' = Bump(settles, c)
          /\ UNCHANGED <<nextRequestId, reqId, resolvers, timers, toWorker>>
     ELSE /\ nextRequestId' = NextId(nextRequestId)
          /\ reqId' = [reqId EXCEPT ![c] = id]
          /\ IF sendOk
             THEN /\ timers' = ArmTimer(timers, c)
                  /\ resolvers' = MapSet(resolvers, id, c)
                  /\ status' = [status EXCEPT ![c] = "pending"]
                  /\ toWorker' = Append(toWorker, [type |-> k.type, requestId |-> id])
                  /\ UNCHANGED settles
             ELSE /\ timers' = ArmTimer(timers, c) \ {c}
                  /\ resolvers' = MapDelete(MapSet(resolvers, id, c), id)
                  /\ status' = Settle(status, c, "commFailed")
                  /\ settles' = Bump(settles, c)
                  /\ UNCHANGED toWorker

Continue ==
  /\ Runnable
  /\ awaiting' = Tail(awaiting)
  /\ \E sendOk \in BOOLEAN :
       IF Head(awaiting).kind = "post"
       THEN ContinuePost(Head(awaiting), sendOk)
       ELSE ContinueGen(Head(awaiting), sendOk)
  /\ UNCHANGED <<mounted, initPromiseRef, initPromise, worker, workerReady, handshakeArmed,
                 initFailed, usedAfterFail, ncalls, nposts, fromWorker, content>>
  /\ UNCHANGED pvars

(* ------------------------------ the worker ---------------------------- *)

\* the worker script starts: self.postMessage({ type: 'READY' })
WorkerBoot ==
  /\ worker = "loading"
  /\ worker' = "running"
  /\ fromWorker' = Append(fromWorker, [type |-> "READY", requestId |-> NoId])
  /\ UNCHANGED <<mounted, initPromiseRef, initPromise, workerReady, handshakeArmed,
                 initFailed, usedAfterFail, nextRequestId, ncalls, nposts, status, settles,
                 reqId, resolvers, timers, awaiting, toWorker, content>>
  /\ UNCHANGED pvars

\* mutant: the catch block of self.onmessage drops the requestId
ErrorReplyNoId(m) == <<[type |-> "error", requestId |-> NoId]>>

\* catch (error) of self.onmessage: { error, requestId }
ErrorReply(m) == <<[type |-> "error", requestId |-> m.requestId]>>

\* what self.onmessage posts for message m: the handler's messages, or the catch block's
\* error when the handler throws
WorkerReplies(m, throws) ==
  IF m.type = "OTHER"
  THEN <<[type |-> "error", requestId |-> NoId]>>
  ELSE IF throws
  THEN ErrorReply(m)
  ELSE IF m.type = "EXTRACT"
  THEN <<[type |-> "progress", requestId |-> NoId], [type |-> "extracted", requestId |-> NoId]>>
  ELSE IF m.type = "APPLY_TRANSLATIONS"
  THEN <<[type |-> "APPLY_RESULT", requestId |-> NoId]>>
  ELSE <<[type |-> "REVERSE_RESULT", requestId |-> m.requestId]>>

\* self.onmessage handles the oldest message posted to the worker
WorkerStep ==
  /\ worker = "running"
  /\ toWorker # <<>>
  /\ toWorker' = Tail(toWorker)
  /\ \E throws \in BOOLEAN : fromWorker' = fromWorker \o WorkerReplies(Head(toWorker), throws)
  /\ UNCHANGED <<mounted, initPromiseRef, initPromise, worker, workerReady, handshakeArmed,
                 initFailed, usedAfterFail, nextRequestId, ncalls, nposts, status, settles,
                 reqId, resolvers, timers, awaiting, content>>
  /\ UNCHANGED pvars

(* -------------------- foreground event handlers ----------------------- *)

\* workerRef.current.onerror: the worker script failed to load
WorkerError ==
  /\ worker = "loading"
  /\ ~Runnable
  /\ worker' = "failed"
  /\ workerReady' = FALSE
  /\ initFailed' = TRUE
  /\ UNCHANGED <<mounted, initPromiseRef, initPromise, handshakeArmed, usedAfterFail,
                 nextRequestId, ncalls, nposts, status, settles, reqId, resolvers, timers,
                 awaiting, toWorker, fromWorker, content>>
  /\ UNCHANGED pvars

\* mutant: only the latest registration is kept in mind, every reply goes to it
MatchNewest(id) ==
  IF DOMAIN resolvers = {} THEN id
  ELSE CHOOSE i \in DOMAIN resolvers : \A j \in DOMAIN resolvers : i >= j

\* the registration a message with requestId id is matched to
MatchEntry(id) == id

\* mutant: the entry is settled but stays registered
KeepEntry(m, id) == m

\* resolversRef.current.delete(reqId)
DeleteEntry(m, id) == MapDelete(m, id)

\* REVERSE_RESULT / error branch of onmessage for a message carrying a requestId
OnReply(msg, outcome) ==
  LET id == MatchEntry(msg.requestId)
  IN IF id # NoId /\ id \in DOMAIN resolvers
     THEN /\ timers' = timers \ {resolvers[id]}
          /\ resolvers' = DeleteEntry(resolvers, id)
          /\ status' = Settle(status, resolvers[id], outcome)
          /\ settles' = Bump(settles, resolvers[id])
          /\ UNCHANGED content
     ELSE /\ content' = IF msg.type = "REVERSE_RESULT" THEN "reversed" ELSE content
          /\ UNCHANGED <<timers, resolvers, status, settles>>

\* workerRef.current.onmessage on the oldest undelivered message
OnMessage ==
  /\ fromWorker # <<>>
  /\ ~Runnable
  /\ fromWorker' = Tail(fromWorker)
  /\ LET msg == Head(fromWorker)
     IN CASE msg.type = "READY" ->
               /\ workerReady' = TRUE
               /\ initPromise' = ResolveInit(initPromise)
               /\ UNCHANGED <<timers, resolvers, status, settles, content>>
          [] msg.type = "APPLY_RESULT" ->
               /\ content' = "applied"
               /\ UNCHANGED <<workerReady, initPromise, timers, resolvers, status, settles>>
          [] msg.type = "REVERSE_RESULT" ->
               /\ OnReply(msg, "resolved")
               /\ UNCHANGED <<workerReady, initPromise>>
          [] msg.type = "error" ->
               /\ OnReply(msg, "workerError")
               /\ UNCHANGED <<workerReady, initPromise>>
          [] OTHER ->
               UNCHANGED <<workerReady, initPromise, timers, resolvers, status, settles, content>>
  /\ UNCHANGED <<mounted, initPromiseRef, worker, handshakeArmed, initFailed, usedAfterFail,
                 nextRequestId, ncalls, nposts, reqId, awaiting, toWorker>>
  /\ UNCHANGED pvars

\* mutant: the timeout rejects every registered call
TimeoutVictimsAll(c) == DOMAIN resolvers

\* the registrations the timeout callback of call c removes and rejects:
\* if (resolversRef.current.has(requestId)) with the requestId captured by c
TimeoutVictims(c) == {reqId[c]} \cap DOMAIN resolvers

\* the callback of call c's window.setTimeout
TimeoutFires(c) ==
  /\ c \in timers
  /\ ~Runnable
  /\ timers' = timers \ {c}
  /\ LET ids == TimeoutVictims(c)
         hit == {resolvers[i] : i \in ids}
     IN /\ resolvers' = [i \in DOMAIN resolvers \ ids |-> resolvers[i]]
        /\ status' = [d \in Calls |-> IF d \in hit /\ status[d] \in Unsettled
                                      THEN "timeout" ELSE status[d]]
        /\ settles' = [d \in Calls |-> IF d \in hit THEN Min2(settles[d] + 1) ELSE settles[d]]
  /\ UNCHANGED <<mounted, initPromiseRef, initPromise, worker, workerReady, handshakeArmed,
                 initFailed, usedAfterFail, nextRequestId, ncalls, nposts, reqId, awaiting,
                 toWorker, fromWorker, content>>
  /\ UNCHANGED pvars

\* the handshake timer's callback (1500 ms): setWorkerReady(true); resolve().
\* setState on an unmounted component is ignored.
HandshakeTimeout ==
  /\ handshakeArmed
  /\ ~Runnable
  /\ handshakeArmed' = FALSE
  /\ workerReady' = IF mounted THEN TRUE ELSE workerReady
  /\ initPromise' = HandshakeResolve(initPromise)
  /\ UNCHANGED <<mounted, initPromiseRef, worker, initFailed, usedAfterFail, nextRequestId,
                 ncalls, nposts, status, settles, reqId, resolvers, timers, awaiting,
                 toWorker, fromWorker, content>>
  /\ UNCHANGED pvars

\* mutant: the cleanup clears the table without rejecting
TeardownRejectsNone == {}

\* the calls the cleanup rejects: every entry of resolversRef.current
TeardownRejects == {resolvers[i] : i \in DOMAIN resolvers}

\* the effect cleanup (unmount): reject and clear every entry, terminate and release
\* the worker (its undelivered messages are discarded), forget the init promise
Teardown ==
  /\ mounted
  /\ ~Runnable
  /\ mounted' = FALSE
  /\ status' = [d \in Calls |-> IF d \in TeardownRejects /\ status[d] \in Unsettled
                                THEN "cancelled" ELSE status[d]]
  /\ settles' = [d \in Calls |-> IF d \in TeardownRejects THEN Min2(settles[d] + 1)
                                 ELSE settles[d]]
  /\ timers' = timers \ {resolvers[i] : i \in DOMAIN resolvers}
  /\ resolvers' = <<>>
  /\ IF WorkerRefSet
     THEN /\ worker' = "terminated"
          /\ toWorker' = <<>>
          /\ fromWorker' = <<>>
     ELSE UNCHANGED <<worker, toWorker, fromWorker>>
  /\ initPromiseRef' = FALSE
  /\ UNCHANGED <<initPromise, workerReady, handshakeArmed, initFailed, usedAfterFail,
                 nextRequestId, ncalls, nposts, reqId, awaiting, content>>
  /\ UNCHANGED pvars

(* --------------------------- specification ---------------------------- *)

Next ==
  \/ CallInitWorker
  \/ CallPostMessage
  \/ CallCreateDownloadPromise
  \/ DownloadReversedWorker
  \/ DownloadReversedSync
  \/ Continue
  \/ WorkerBoot
  \/ WorkerStep
  \/ WorkerError
  \/ OnMessage
  \/ \E c \in Calls : TimeoutFires(c)
  \/ HandshakeTimeout
  \/ Teardown

Spec == Init /\ [][Next]_vars

\* timers fire and microtasks run
Fairness ==
  /\ WF_vars(HandshakeTimeout)
  /\ WF_vars(Continue)
  /\ \A c \in Calls : WF_vars(TimeoutFires(c))

FairSpec == Spec /\ Fairness

(* ------------------------ task runner: claims ------------------------- *)

Pending(c) == status[c] = "pending"

Registered(c, table) == reqId[c] \in DOMAIN table /\ table[reqId[c]] = c

\* C1: when the timeout of a pending call fires, that call is rejected with the timeout
\* error, and every other call keeps its state, its timer and its registration.
C1_TimeoutIsolated ==
  [][\A c \in Calls :
       (TimeoutFires(c) /\ Pending(c)) =>
         /\ status'[c] = "timeout"
         /\ \A d \in Calls \ {c} :
              /\ status'[d] = status[d]
              /\ (d \in timers') = (d \in timers)
              /\ Pending(d) => Registered(d, resolvers')]_vars

\* C1 witness: a call timed out and a later call, pending at that moment, was then
\* resolved by its own reply.
C1_Witness ==
  \E c, d \in Calls : c < d /\ status[c] = "timeout" /\ status[d] = "resolved"

\* C2: the cleanup rejects every pending call exactly once with the cancellation error,
\* empties the table, clears the timers, and terminates and releases the worker.
C2_TeardownCancelsAll ==
  [][Teardown =>
       /\ \A c \in Calls : Pending(c) => (status'[c] = "cancelled" /\ settles'[c] = 1)
       /\ \A c \in Calls : status'[c] # "pending"
       /\ resolvers' = <<>>
       /\ timers' = {}
       /\ ~WorkerRefSet'
       /\ WorkerRefSet => worker' = "terminated"]_vars

\* C2 witness: unmounted with two calls cancelled and the worker terminated.
C2_Witness ==
  /\ ~mounted
  /\ worker = "terminated"
  /\ \E c, d \in Calls : c # d /\ status[c] = "cancelled" /\ status[d] = "cancelled"

\* C3: a REVERSE_RESULT or error message carrying the identifier of a pending call
\* resolves (rejects) exactly that call, clears its timer and removes its registration;
\* every other call keeps its state, timer and registration.
C3_ReplyMatchedById ==
  [][OnMessage =>
       LET msg == Head(fromWorker)
       IN \A c \in Calls :
            (msg.type \in {"REVERSE_RESULT", "error"} /\ Pending(c) /\ reqId[c] = msg.requestId) =>
              /\ status'[c] = (IF msg.type = "error" THEN "workerError" ELSE "resolved")
              /\ c \notin timers'
              /\ msg.requestId \notin DOMAIN resolvers'
              /\ \A d \in Calls \ {c} :
                   /\ status'[d] = status[d]
                   /\ (d \in timers') = (d \in timers)
                   /\ Pending(d) => Registered(d, resolvers')]_vars

\* C3 witness: a call was resolved by its reply while a later call stays pending and
\* registered with its timer armed.
C3_Witness ==
  \E c, d \in Calls :
    /\ c # d /\ status[c] = "resolved"
    /\ Pending(d) /\ Registered(d, resolvers) /\ d \in timers

Sends == Len(toWorker') = Len(toWorker) + 1

Sent == toWorker'[Len(toWorker')]

Correlated(m) ==
  /\ m.requestId # NoId
  /\ \A c \in Calls : reqId[c] # m.requestId
  /\ m.requestId \in DOMAIN resolvers'
  /\ resolvers'[m.requestId] \in timers'

C5_TableIsPending ==
  /\ DOMAIN resolvers = {reqId[c] : c \in {d \in Calls : Pending(d)}}
  /\ \A c \in Calls : Pending(c) => Registered(c, resolvers)
  /\ \A c \in Calls : status[c] \in Settled => ~Registered(c, resolvers)

\* C5 witness: one call timed out, one was resolved, one is still registered.
C5_Witness ==
  \E c, d, e \in Calls :
    /\ status[c] = "timeout" /\ status[d] = "resolved"
    /\ Pending(e) /\ DOMAIN resolvers = {reqId[e]}

\* C6: with timers firing, every registered call is eventually settled.
C6_PendingEventuallySettled ==
  \A c \in Calls : Pending(c) ~> (status[c] \in Settled)

\* C6 witness: the worker never answered and the call was settled by its timeout.
C6_Witness ==
  worker = "failed" /\ \E c \in Calls : reqId[c] # NoId /\ status[c] = "timeout"

\* C7: once initWorker has started bring-up, the initialization promise resolves, by the
\* READY handshake or by the handshake timer, even if the handshake never arrives.
C7_InitEventuallyResolves ==
  (initPromise = "pending") ~> (initPromise = "resolved")

\* C7 witness: the promise resolved although the worker never sent READY.
C7_Witness ==
  initPromise = "resolved" /\ worker = "failed" /\ ~handshakeArmed

\* C8 as stated: after an initialization failure the runner never reports ready again
\* and no later download is dispatched to the worker.
C8_StaysUnavailable ==
  initFailed => (~workerReady /\ ~usedAfterFail)

\* ---------------------------------------------------------------------------
\* Text: a string is a sequence of character codes, a document is one string.
\* ---------------------------------------------------------------------------

TAB == 9
LF == 10
CR == 13
SPACE == 32
QUOTE == 34
BACKSLASH == 92
BOM == 65279

\* "0".."9"
Digits == 48..57

\* what \s and String.prototype.trim treat as white space
WhiteSpace == {9, 10, 11, 12, 13, 32, 160, 5760, 8232, 8233, 8239, 8287, 12288, 65279}
                \cup (8192..8202)

\* what "." in a regular expression does not match
LineTerminators == {10, 13, 8232, 8233}

\* a value that is not a string: the undefined of an optional field
Undefined == -1
UndefinedStr == <<Undefined>>

\* literals of the sources, as character codes
STR_TERM == <<35, 84, 101, 114, 109, 58>>                         \* #Term:
STR_STRING == <<115, 116, 114, 105, 110, 103>>                    \* string
STR_DATA == <<100, 97, 116, 97>>                                  \* data
STR_EQ == <<61>>                                                  \* =
STR_STRING_DATA_EQ_QUOTE ==                                       \* string data = "
  <<115, 116, 114, 105, 110, 103, 32, 100, 97, 116, 97, 32, 61, 32, 34>>

Drop(s, n) == SubSeq(s, n + 1, Len(s))

Take(s, n) == SubSeq(s, 1, n)

StartsWith(s, p) == Len(s) >= Len(p) /\ Take(s, Len(p)) = p

MinOf(S) == CHOOSE x \in S : \A y \in S : x <= y

MaxOf(S) == CHOOSE x \in S : \A y \in S : x >= y

\* the length of the longest prefix of s made of characters of set cs
Span(s, cs) ==
  LET stop == {k \in 1..Len(s) : s[k] \notin cs}
  IN IF stop = {} THEN Len(s) ELSE MinOf(stop) - 1

\* the length of the longest suffix of s made of characters of set cs
SpanEnd(s, cs) ==
  LET stop == {k \in 1..Len(s) : s[k] \notin cs}
  IN IF stop = {} THEN Len(s) ELSE Len(s) - MaxOf(stop)

\* String.prototype.trim
Trim(s) ==
  LET a == Span(s, WhiteSpace)
      t == Drop(s, a)
  IN Take(t, Len(t) - SpanEnd(t, WhiteSpace))

\* the pieces of ls one after the other
RECURSIVE Concat(_)
Concat(ls) ==
  IF ls = <<>> THEN <<>>
  ELSE IF Len(ls) = 1 THEN ls[1]
  ELSE LET h == Len(ls) \div 2
       IN Concat(SubSeq(ls, 1, h)) \o Concat(SubSeq(ls, h + 1, Len(ls)))

\* s.replace(/ab/g, rep) for a two-character pattern: left to right, non-overlapping.
\* With a = b a match starts at every other place of a run of a, from the run's start.
ReplacePair(s, a, b, rep) ==
  LET others(k) == {j \in 1..(k - 1) : s[j] # a}
      run(k) == k - 1 - (IF others(k) = {} THEN 0 ELSE MaxOf(others(k)))
      starts(k) == /\ k >= 1
                   /\ k < Len(s)
                   /\ s[k] = a
                   /\ s[k + 1] = b
                   /\ (a # b \/ run(k) % 2 = 0)
  IN Concat([k \in 1..Len(s) |->
               IF starts(k) THEN rep
               ELSE IF starts(k - 1) THEN <<>> ELSE <<s[k]>>])

\* s.replace(/a/g, rep) for a one-character pattern
ReplaceChar(s, a, rep) ==
  Concat([k \in 1..Len(s) |-> IF s[k] = a THEN rep ELSE <<s[k]>>])

\* s.split('\n'): never empty, the empty string gives one empty line
Split(s, sep) ==
  LET seps == {k \in 1..Len(s) : s[k] = sep}
      cut(n) == IF n = 0 THEN 0
                ELSE IF n > Cardinality(seps) THEN Len(s) + 1
                ELSE CHOOSE p \in seps : Cardinality({q \in seps : q <= p}) = n
  IN [n \in 1..(Cardinality(seps) + 1) |-> SubSeq(s, cut(n - 1) + 1, cut(n) - 1)]

\* lines.join(sep)
Join(ls, sep) ==
  Concat([k \in 1..(2 * Len(ls) - 1) |-> IF k % 2 = 1 THEN ls[(k + 1) \div 2] ELSE sep])

\* parseInt(digits, 10) of a string of decimal digits
RECURSIVE ParseInt(_)
ParseInt(ds) ==
  IF ds = <<>> THEN 0 ELSE 10 * ParseInt(Take(ds, Len(ds) - 1)) + (ds[Len(ds)] - 48)

\* ---------------------------------------------------------------------------
\* Extractor (extractionHelpers)
\* ---------------------------------------------------------------------------

NoMatch == [ok |-> FALSE]

\* content.replace(BOM, '').replace(/\r\n/g, '\n').replace(/\r/g, '\n')
normalizeFileContent(c) ==
  LET noBom == IF c # <<>> /\ c[1] = BOM THEN Tail(c) ELSE c
  IN ReplaceChar(ReplacePair(noBom, CR, LF, <<LF>>), CR, <<LF>>)

\* REGEX.TERM  /^#Term:\s*(.+)$/  : the label is what follows the marker and white space
TermMatch(line) ==
  IF ~StartsWith(line, STR_TERM) THEN NoMatch
  ELSE LET rest == Drop(line, Len(STR_TERM))
           label == Drop(rest, Span(rest, WhiteSpace))
           \* "\s*" may give characters back so that ".+" has one to take
           taken == IF label = <<>> /\ rest # <<>> THEN <<rest[Len(rest)]>> ELSE label
       IN IF taken = <<>> \/ \E k \in 1..Len(taken) : taken[k] \in LineTerminators
          THEN NoMatch
          ELSE [ok |-> TRUE, label |-> taken]

\* REGEX.BRACKETED_NUM  /^\[(\d+)\]$/
BracketMatch(line) ==
  IF Len(line) >= 3 /\ line[1] = 91 /\ line[Len(line)] = 93
     /\ \A k \in 2..(Len(line) - 1) : line[k] \in Digits
  THEN [ok |-> TRUE, num |-> SubSeq(line, 2, Len(line) - 1)]
  ELSE NoMatch

\* the length of the body (?:[^"\\]|\\.)* at the head of s: it stops at the
\* first quote that no backslash escapes, or where a backslash has nothing to escape
RECURSIVE BodySpan(_)
BodySpan(s) ==
  IF s = <<>> \/ s[1] = QUOTE THEN 0
  ELSE IF s[1] = BACKSLASH
       THEN IF Len(s) >= 2 /\ s[2] \notin LineTerminators
            THEN 2 + BodySpan(Drop(s, 2)) ELSE 0
       ELSE 1 + BodySpan(Tail(s))

\* REGEX.DATA  /^\s*(\d+)\s+string\s+data\s*=\s*"((?:[^"\\]|\\.)*)"\s*$/
DataMatch(line) ==
  LET s1 == Drop(line, Span(line, WhiteSpace))
      nd == Span(s1, Digits)
      s2 == Drop(s1, nd)
      w2 == Span(s2, WhiteSpace)
      s3 == Drop(s2, w2)
      s4 == Drop(s3, Len(STR_STRING))
      w4 == Span(s4, WhiteSpace)
      s5 == Drop(s4, w4)
      s6 == Drop(s5, Len(STR_DATA))
      s7 == Drop(s6, Span(s6, WhiteSpace))
      s8 == Drop(s7, Len(STR_EQ))
      s9 == Drop(s8, Span(s8, WhiteSpace))
      body == Tail(s9)
      nb == BodySpan(body)
      after == Drop(body, nb)
  IN IF /\ nd >= 1 /\ w2 >= 1
        /\ StartsWith(s3, STR_STRING) /\ w4 >= 1
        /\ StartsWith(s5, STR_DATA)
        /\ StartsWith(s7, STR_EQ)
        /\ s9 # <<>> /\ s9[1] = QUOTE
        /\ after # <<>> /\ after[1] = QUOTE
        /\ Span(Tail(after), WhiteSpace) = Len(after) - 1
     THEN [ok |-> TRUE, indexStr |-> Take(s1, nd), dataStr |-> Take(body, nb)]
     ELSE NoMatch

\* the five replacements, each over the whole string, in the order of the source
Unescape(dataStr) ==
  LET a == ReplacePair(dataStr, BACKSLASH, 110, <<LF>>)
      b == ReplacePair(a, BACKSLASH, 116, <<TAB>>)
      c == ReplacePair(b, BACKSLASH, 114, <<CR>>)
      d == ReplacePair(c, BACKSLASH, QUOTE, <<QUOTE>>)
  IN ReplacePair(d, BACKSLASH, BACKSLASH, <<BACKSLASH>>)

\* the item pushed for the value line after lines[i] (i counts from 0)
ExtractedItem(currentTerm, i, dm) ==
  [term |-> currentTerm,
   originalText |-> Unescape(dm.dataStr),
   dataLineIndex |-> i + 1,
   linePrefix |-> <<SPACE, SPACE>> \o dm.indexStr \o <<SPACE>> \o STR_STRING_DATA_EQ_QUOTE]

\* the loop of extractTermsChunked from line i (counting from 0) on
RECURSIVE ExtractLoop(_, _, _, _, _)
ExtractLoop(lines, targetIndex, i, currentTerm, results) ==
  IF i >= Len(lines) THEN results
  ELSE
    LET line == Trim(lines[i + 1])
        termMatch == TermMatch(line)
        hasNext == i + 1 < Len(lines) /\ lines[i + 2] # <<>>
        dataMatch == IF hasNext THEN DataMatch(Trim(lines[i + 2])) ELSE NoMatch
    IN IF termMatch.ok
       THEN ExtractLoop(lines, targetIndex, i + 1, termMatch.label, results)
       ELSE IF BracketMatch(line).ok /\ dataMatch.ok
       THEN ExtractLoop(lines, targetIndex, i + 2, currentTerm,
              IF ParseInt(dataMatch.indexStr) = targetIndex /\ currentTerm # <<>>
              THEN Append(results, ExtractedItem(currentTerm, i, dataMatch))
              ELSE results)
       ELSE ExtractLoop(lines, targetIndex, i + 1, currentTerm, results)

extractTermsChunked(c, targetIndex) ==
  ExtractLoop(Split(normalizeFileContent(c), LF), targetIndex, 0, <<>>, <<>>)

\* ---------------------------------------------------------------------------
\* Documents the extractor is run on
\* ---------------------------------------------------------------------------

\* how many groups of lines a document is made of
MaxChunks == 3

LineTermG == STR_TERM \o <<SPACE, 71>>                             \* #Term: G
LineTermH == STR_TERM \o <<72>>                                    \* #Term:H
LineSlot0 == <<91, 48, 93>>                                        \* [0]
LineSlot1 == <<91, 49, 93>>                                        \* [1]

\* indent, slot number, "string data =", the quoted body
ValueLine(indent, slot, body) ==
  indent \o slot \o <<SPACE>> \o STR_STRING_DATA_EQ_QUOTE \o body \o <<QUOTE>>

ExtractChunks ==
  { <<LineTermG>>,
    <<LineTermH>>,
    <<LineSlot0, ValueLine(<<SPACE, SPACE>>, <<48>>, <<97>>)>>,                 \*   0 .. "a"
    <<LineSlot0, ValueLine(<<>>, <<48>>, <<98>>)>>,                             \* 0 .. "b"
    <<LineSlot1, ValueLine(<<SPACE, SPACE>>, <<49>>, <<99>>)>>,                 \*   1 .. "c"
    <<LineSlot0, ValueLine(<<SPACE, SPACE>>, <<48>>, <<BACKSLASH, BACKSLASH, 110>>)>>,
    <<LineSlot0, <<SPACE, SPACE, 48, SPACE>> \o STR_STRING_DATA_EQ_QUOTE \o <<97>>>>,  \* no closing quote
    <<LineSlot1, ValueLine(<<SPACE, SPACE>>, <<48>>, <<100>>)>>,                \* [1] then 0 .. "d"
    <<<<>>>> }                                                                  \* a blank line

TargetIndexes == {0, 1}

\* line ends and byte-order mark of the file as read
FileStyles == {"lf", "bom-crlf"}

RECURSIVE Flatten(_)
Flatten(chunks) == IF chunks = <<>> THEN <<>> ELSE chunks[1] \o Flatten(Tail(chunks))

FileContent(chunks, style) ==
  IF style = "lf" THEN Join(Flatten(chunks), <<LF>>)
  ELSE <<BOM>> \o Join(Flatten(chunks), <<CR, LF>>)

ExtractInputs ==
  { [content |-> FileContent(chunks, style), targetIndex |-> t] :
      chunks \in UNION { [1..n -> ExtractChunks] : n \in 1..MaxChunks },
      style \in FileStyles, t \in TargetIndexes }

ExtractInit ==
  /\ RunnerInit
  /\ pin \in ExtractInputs
  /\ pout = NoCall

\* extractTermsChunked run on the file for the chosen language slot
CallExtract ==
  /\ ~pout.done
  /\ pout' = [done |-> TRUE, items |-> extractTermsChunked(pin.content, pin.targetIndex)]
  /\ UNCHANGED <<rvars, pin>>

ExtractNext == CallExtract

SpecExtract == ExtractInit /\ [][ExtractNext]_vars

\* ---------------------------------------------------------------------------
\* Script shaping (applyRTLFormatting) and escaping, one copy per source file
\* ---------------------------------------------------------------------------

\* [\u0600-\u06FF\uFB50-\uFDFF\uFE70-\uFEFF]
ArabicRanges == (1536..1791) \cup (64336..65023) \cup (65136..65279)

\* isRTLChar of rtlHelpers: the Arabic ranges and Hebrew
RTLChars_rtl == ArabicRanges \cup (1424..1535)

\* isLikelyRTL of rtlHelpers: [\u0600-\u06FF\u0750-\u077F\uFB50-\uFDFF\uFE70-\uFEFF]
isLikelyRTL(text) ==
  \E k \in 1..Len(text) : text[k] \in ArabicRanges \cup (1872..1919)

\* the form of each letter when every shaping-capable letter joins to the next one
ShapeCharJoinAll(forms, nonConnectors, chars, i) ==
  LET char == chars[i]
      prevConnects == i > 1 /\ chars[i - 1] \in DOMAIN forms
      nextConnects == i < Len(chars) /\ chars[i + 1] \in DOMAIN forms
      formIndex == IF prevConnects /\ nextConnects THEN 3
                   ELSE IF prevConnects THEN 1
                   ELSE IF nextConnects THEN 2 ELSE 0
  IN IF char \notin DOMAIN forms THEN char ELSE forms[char][formIndex + 1]

\* chars.map((char, i) => ...): the form of each letter from its two neighbours
ShapeChar(forms, nonConnectors, chars, i) ==
  LET char == chars[i]
      prevConnects == i > 1 /\ chars[i - 1] \in DOMAIN forms
                            /\ chars[i - 1] \notin nonConnectors
      nextConnects == i < Len(chars) /\ chars[i + 1] \in DOMAIN forms
      formIndex == IF prevConnects /\ nextConnects THEN 3
                   ELSE IF prevConnects THEN 1
                   ELSE IF nextConnects THEN 2 ELSE 0
  IN IF char \notin DOMAIN forms THEN char ELSE forms[char][formIndex + 1]

ShapeChars(forms, nonConnectors, chars) ==
  [i \in 1..Len(chars) |-> ShapeChar(forms, nonConnectors, chars, i)]

Reverse(s) == [i \in 1..Len(s) |-> s[Len(s) + 1 - i]]

\* a finished segment, reversed when it is right-to-left
Segment(cur, rtl) == IF cur[1] \in rtl THEN Reverse(cur) ELSE cur

\* the segment loop: cur is the segment being collected
RECURSIVE SegmentsFrom(_, _, _)
SegmentsFrom(s, rtl, cur) ==
  IF s = <<>> THEN Segment(cur, rtl)
  ELSE IF (s[1] \in rtl) = (cur[1] \in rtl)
       THEN SegmentsFrom(Tail(s), rtl, Append(cur, s[1]))
       ELSE Segment(cur, rtl) \o SegmentsFrom(Tail(s), rtl, <<s[1]>>)

\* the whole text reversed, whatever its segments
ReverseWhole(s, rtl) == Reverse(s)

\* split into right-to-left and left-to-right segments, reverse the former, join
ReverseRTLSegments(s, rtl) ==
  IF s = <<>> THEN s ELSE SegmentsFrom(Tail(s), rtl, <<s[1]>>)

\* an object literal of letter: [isolated, final, initial, medial] entries
FormsOf(table) ==
  [char \in {table[k][1] : k \in DOMAIN table} |->
     table[CHOOSE k \in DOMAIN table : table[k][1] = char][2]]

\* presentationForms, extractWorker.js: letter, <<isolated, final, initial, medial>>
presentationForms_worker ==
  FormsOf(<<
    <<1575, <<65165, 65166, 65165, 65165>>>>,
    <<1570, <<65153, 65154, 65153, 65153>>>>,
    <<1576, <<65167, 65168, 65169, 65170>>>>,
    <<1662, <<64342, 64343, 64344, 64345>>>>,
    <<1578, <<65173, 65174, 65175, 65176>>>>,
    <<1579, <<65177, 65178, 65179, 65180>>>>,
    <<1580, <<65181, 65182, 65183, 65184>>>>,
    <<1670, <<64378, 64379, 64380, 64381>>>>,
    <<1581, <<65185, 65186, 65187, 65188>>>>,
    <<1582, <<65189, 65190, 65191, 65192>>>>,
    <<1583, <<65193, 65194, 65193, 65193>>>>,
    <<1584, <<65195, 65196, 65195, 65195>>>>,
    <<1585, <<65197, 65198, 65197, 65197>>>>,
    <<1586, <<65199, 65200, 65199, 65199>>>>,
    <<1688, <<64394, 64395, 64394, 64394>>>>,
    <<1587, <<65201, 65202, 65203, 65204>>>>,
    <<1588, <<65205, 65206, 65207, 65208>>>>,
    <<1589, <<65209, 65210, 65211, 65212>>>>,
    <<1590, <<65213, 65214, 65215, 65216>>>>,
    <<1591, <<65217, 65218, 65219, 65220>>>>,
    <<1592, <<65221, 65222, 65223, 65224>>>>,
    <<1593, <<65225, 65226, 65227, 65228>>>>,
    <<1594, <<65229, 65230, 65231, 65232>>>>,
    <<1601, <<65233, 65234, 65235, 65236>>>>,
    <<1602, <<65237, 65238, 65239, 65240>>>>,
    <<1705, <<65241, 65242, 65243, 65244>>>>,
    <<1711, <<64402, 64403, 64404, 64405>>>>,
    <<1604, <<65245, 65246, 65247, 65248>>>>,
    <<1605, <<65249, 65250, 65251, 65252>>>>,
    <<1606, <<65253, 65254, 65255, 65256>>>>,
    <<1608, <<65261, 65262, 65261, 65261>>>>,
    <<1607, <<65259, 65260, 65261, 65262>>>>,
    <<1740, <<65265, 65266, 65267, 65268>>>>,
    <<1574, <<65161, 65162, 65163, 65164>>>>
  >>)

\* letters that do not join to the letter after them, extractWorker.js
nonConnectors_worker == {1575, 1570, 1583, 1584, 1585, 1586, 1688, 1608}

\* Arabic letters replaced by their Persian counterparts, extractWorker.js
normalize_worker(text) ==
  LET t1 == ReplaceChar(text, 1603, <<1705>>)
      t2 == ReplaceChar(t1, 1610, <<1740>>)
      t3 == ReplaceChar(t2, 1577, <<1607>>)
      t4 == ReplaceChar(t3, 1571, <<1575>>)
      t5 == ReplaceChar(t4, 1573, <<1575>>)
      t6 == ReplaceChar(t5, 1572, <<1608>>)
  IN t6

applyRTLFormatting_worker(text) ==
  ReverseRTLSegments(
    ShapeChars(presentationForms_worker, nonConnectors_worker, normalize_worker(text)),
    ArabicRanges)

\* backslash, quote, newline, carriage return, tab, in this order
escapeSpecialCharacters_worker(text) ==
  LET a == ReplaceChar(text, BACKSLASH, <<BACKSLASH, BACKSLASH>>)
      b == ReplaceChar(a, QUOTE, <<BACKSLASH, QUOTE>>)
      c == ReplaceChar(b, LF, <<BACKSLASH, 110>>)
      d == ReplaceChar(c, CR, <<BACKSLASH, 114>>)
  IN ReplaceChar(d, TAB, <<BACKSLASH, 116>>)

\* presentationForms, translationHelpers.ts: letter, <<isolated, final, initial, medial>>
presentationForms_helpers ==
  FormsOf(<<
    <<1575, <<65165, 65166, 65165, 65165>>>>,
    <<1570, <<65153, 65154, 65153, 65153>>>>,
    <<1576, <<65167, 65168, 65169, 65170>>>>,
    <<1662, <<64342, 64343, 64344, 64345>>>>,
    <<1578, <<65173, 65174, 65175, 65176>>>>,
    <<1579, <<65177, 65178, 65179, 65180>>>>,
    <<1580, <<65181, 65182, 65183, 65184>>>>,
    <<1670, <<64378, 64379, 64380, 64381>>>>,
    <<1581, <<65185, 65186, 65187, 65188>>>>,
    <<1582, <<65189, 65190, 65191, 65192>>>>,
    <<1583, <<65193, 65194, 65193, 65193>>>>,
    <<1584, <<65195, 65196, 65195, 65195>>>>,
    <<1585, <<65197, 65198, 65197, 65197>>>>,
    <<1586, <<65199, 65200, 65199, 65199>>>>,
    <<1688, <<64394, 64395, 64394, 64394>>>>,
    <<1587, <<65201, 65202, 65203, 65204>>>>,
    <<1588, <<65205, 65206, 65207, 65208>>>>,
    <<1589, <<65209, 65210, 65211, 65212>>>>,
    <<1590, <<65213, 65214, 65215, 65216>>>>,
    <<1591, <<65217, 65218, 65219, 65220>>>>,
    <<1592, <<65221, 65222, 65223, 65224>>>>,
    <<1593, <<65225, 65226, 65227, 65228>>>>,
    <<1594, <<65229, 65230, 65231, 65232>>>>,
    <<1601, <<65233, 65234, 65235, 65236>>>>,
    <<1602, <<65237, 65238, 65239, 65240>>>>,
    <<1705, <<65241, 65242, 65243, 65244>>>>,
    <<1711, <<64402, 64403, 64404, 64405>>>>,
    <<1604, <<65245, 65246, 65247, 65248>>>>,
    <<1605, <<65249, 65250, 65251, 65252>>>>,
    <<1606, <<65253, 65254, 65255, 65256>>>>,
    <<1608, <<65261, 65262, 65261, 65261>>>>,
    <<1607, <<65259, 65260, 65261, 65262>>>>,
    <<1740, <<65265, 65266, 65267, 65268>>>>,
    <<1574, <<65161, 65162, 65163, 65164>>>>
  >>)

\* letters that do not join to the letter after them, translationHelpers.ts
nonConnectors_helpers == {1575, 1570, 1583, 1584, 1585, 1586, 1688, 1608}

\* Arabic letters replaced by their Persian counterparts, translationHelpers.ts
normalize_helpers(text) ==
  LET t1 == ReplaceChar(text, 1603, <<1705>>)
      t2 == ReplaceChar(t1, 1610, <<1740>>)
      t3 == ReplaceChar(t2, 1577, <<1607>>)
      t4 == ReplaceChar(t3, 1571, <<1575>>)
      t5 == ReplaceChar(t4, 1573, <<1575>>)
      t6 == ReplaceChar(t5, 1572, <<1608>>)
  IN t6

applyRTLFormatting_helpers(text) ==
  ReverseRTLSegments(
    ShapeChars(presentationForms_helpers, nonConnectors_helpers, normalize_helpers(text)),
    ArabicRanges)

escapeSpecialCharacters_helpers(text) ==
  LET a == ReplaceChar(text, BACKSLASH, <<BACKSLASH, BACKSLASH>>)
      b == ReplaceChar(a, QUOTE, <<BACKSLASH, QUOTE>>)
      c == ReplaceChar(b, LF, <<BACKSLASH, 110>>)
      d == ReplaceChar(c, CR, <<BACKSLASH, 114>>)
  IN ReplaceChar(d, TAB, <<BACKSLASH, 116>>)

\* presentationForms, rtlHelpers (applyManualShaping): letter, <<isolated, final, initial, medial>>
presentationForms_rtl ==
  FormsOf(<<
    <<1575, <<65165, 65166, 65165, 65165>>>>,
    <<1570, <<65153, 65154, 65153, 65153>>>>,
    <<1576, <<65167, 65168, 65169, 65170>>>>,
    <<1662, <<64342, 64343, 64344, 64345>>>>,
    <<1578, <<65173, 65174, 65175, 65176>>>>,
    <<1579, <<65177, 65178, 65179, 65180>>>>,
    <<1580, <<65181, 65182, 65183, 65184>>>>,
    <<1670, <<64378, 64379, 64380, 64381>>>>,
    <<1581, <<65185, 65186, 65187, 65188>>>>,
    <<1582, <<65189, 65190, 65191, 65192>>>>,
    <<1583, <<65193, 65194, 65193, 65193>>>>,
    <<1584, <<65195, 65196, 65195, 65195>>>>,
    <<1585, <<65197, 65198, 65197, 65197>>>>,
    <<1586, <<65199, 65200, 65199, 65199>>>>,
    <<1688, <<64394, 64395, 64394, 64394>>>>,
    <<1587, <<65201, 65202, 65203, 65204>>>>,
    <<1588, <<65205, 65206, 65207, 65208>>>>,
    <<1589, <<65209, 65210, 65211, 65212>>>>,
    <<1590, <<65213, 65214, 65215, 65216>>>>,
    <<1591, <<65217, 65218, 65219, 65220>>>>,
    <<1592, <<65221, 65222, 65223, 65224>>>>,
    <<1593, <<65225, 65226, 65227, 65228>>>>,
    <<1594, <<65229, 65230, 65231, 65232>>>>,
    <<1601, <<65233, 65234, 65235, 65236>>>>,
    <<1602, <<65237, 65238, 65239, 65240>>>>,
    <<1705, <<65241, 65242, 65243, 65244>>>>,
    <<1711, <<64402, 64403, 64404, 64405>>>>,
    <<1604, <<65245, 65246, 65247, 65248>>>>,
    <<1605, <<65249, 65250, 65251, 65252>>>>,
    <<1606, <<65253, 65254, 65255, 65256>>>>,
    <<1608, <<65261, 65262, 65261, 65261>>>>,
    <<1607, <<65259, 65260, 65261, 65262>>>>,
    <<1740, <<65265, 65266, 65267, 65268>>>>,
    <<1574, <<65161, 65162, 65163, 65164>>>>
  >>)

\* letters that do not join to the letter after them, rtlHelpers (applyManualShaping)
nonConnectors_rtl == {1575, 1570, 1583, 1584, 1585, 1586, 1688, 1608}

\* Arabic letters replaced by their Persian counterparts, rtlHelpers (applyManualShaping)
normalize_rtl(text) ==
  LET t1 == ReplaceChar(text, 1610, <<1740>>)
      t2 == ReplaceChar(t1, 1603, <<1705>>)
      t3 == ReplaceChar(t2, 1572, <<1608>>)
      t4 == ReplaceChar(t3, 1571, <<1575>>)
      t5 == ReplaceChar(t4, 1573, <<1575>>)
      t6 == ReplaceChar(t5, 1577, <<1607>>)
  IN t6

\* applyManualShaping: the shaping used when the arabic-reshaper package cannot be
\* loaded, which is the case in a browser bundle, where require is not defined
applyManualShaping(text) ==
  ShapeChars(presentationForms_rtl, nonConnectors_rtl, text)

\* segments by UTF-16 unit; the strings here hold characters of the basic plane only
applyBidiReordering(text) == ReverseRTLSegments(text, RTLChars_rtl)

applyRTLFormatting_rtl(text) ==
  IF text = <<>> \/ ~isLikelyRTL(text) THEN text
  ELSE applyBidiReordering(applyManualShaping(normalize_rtl(text)))

\* ---------------------------------------------------------------------------
\* Shaped merge: the worker's, and the two in-process ones
\* ---------------------------------------------------------------------------

\* a Map<string, string> is its entries in insertion order, keys distinct
MapHas(map, key) == \E n \in 1..Len(map) : map[n][1] = key

MapGetHi(map, key) == <<72, 105>>

\* map.get(key): undefined when the key is absent
MapGet(map, key) ==
  IF MapHas(map, key)
  THEN map[CHOOSE n \in 1..Len(map) : map[n][1] = key][2]
  ELSE UndefinedStr

\* map.set(key, value): a present key keeps its place
MapPut(map, key, value) ==
  IF MapHas(map, key)
  THEN [n \in 1..Len(map) |-> IF map[n][1] = key THEN <<key, value>> ELSE map[n]]
  ELSE Append(map, <<key, value>>)

\* new Map(entries)
RECURSIVE NewMapFrom(_, _)
NewMapFrom(entries, map) ==
  IF entries = <<>> THEN map
  ELSE NewMapFrom(Tail(entries), MapPut(map, entries[1][1], entries[1][2]))

NewMap(entries) == NewMapFrom(entries, <<>>)

\* Array.from(translationMap.entries())
ArrayFromEntries(map) == [n \in 1..Len(map) |-> <<map[n][1], map[n][2]>>]

\* a string that is neither undefined nor empty
Truthy(str) == str # UndefinedStr /\ str # <<>>

SetLineInsert(lines, idx, line) ==
  IF idx < Len(lines) THEN Take(lines, idx) \o <<line>> \o Drop(lines, idx)
  ELSE Append(lines, line)

\* lines[idx] = line: an index past the end grows the array, the gap joins as
\* empty lines
SetLine(lines, idx, line) ==
  IF idx < Len(lines) THEN [lines EXCEPT ![idx + 1] = line]
  ELSE lines \o [k \in 1..(idx - Len(lines)) |-> <<>>] \o <<line>>

\* the line the worker writes for an item
ReversedLine_worker(item, translation) ==
  (IF Truthy(item.linePrefix) THEN item.linePrefix ELSE <<>>)
    \o STR_STRING_DATA_EQ_QUOTE
    \o escapeSpecialCharacters_worker(applyRTLFormatting_worker(translation))
    \o <<QUOTE>>

RECURSIVE ReverseItems_worker(_, _, _)
ReverseItems_worker(lines, extractedData, map) ==
  IF extractedData = <<>> THEN lines
  ELSE LET item == extractedData[1]
           translation == MapGet(map, item.term)
       IN ReverseItems_worker(
            IF Truthy(translation) /\ item.dataLineIndex # Undefined
            THEN SetLine(lines, item.dataLineIndex, ReversedLine_worker(item, translation))
            ELSE lines,
            Tail(extractedData), map)

\* the "updated" of the REVERSE_RESULT reply
handleGenerateReversed(c, extractedData, translationsArray) ==
  Join(ReverseItems_worker(Split(c, LF), extractedData, NewMap(translationsArray)), <<LF>>)

\* the line translationHelpers writes for an item
ReversedLine_helpers(item, translation) ==
  (IF Truthy(item.linePrefix) THEN item.linePrefix ELSE <<>>)
    \o STR_STRING_DATA_EQ_QUOTE
    \o escapeSpecialCharacters_helpers(applyRTLFormatting_helpers(translation))
    \o <<QUOTE>>

RECURSIVE ReverseItems_helpers(_, _, _)
ReverseItems_helpers(lines, data, translationMap) ==
  IF data = <<>> THEN lines
  ELSE LET item == data[1]
           translation == MapGet(translationMap, item.term)
       IN ReverseItems_helpers(
            IF Truthy(translation) /\ item.dataLineIndex # Undefined
            THEN SetLine(lines, item.dataLineIndex, ReversedLine_helpers(item, translation))
            ELSE lines,
            Tail(data), translationMap)

\* generateReversedContent of translationHelpers, the one the page imports
generateReversedContent_helpers(c, data, translationMap) ==
  Join(ReverseItems_helpers(Split(c, LF), data, translationMap), <<LF>>)

\* the escaping written out in generateReversedContent of extractionHelpers
escapeTranslation_extraction(rtlText) ==
  LET a == ReplaceChar(rtlText, BACKSLASH, <<BACKSLASH, BACKSLASH>>)
      b == ReplaceChar(a, QUOTE, <<BACKSLASH, QUOTE>>)
      c == ReplaceChar(b, LF, <<BACKSLASH, 110>>)
      d == ReplaceChar(c, CR, <<BACKSLASH, 114>>)
  IN ReplaceChar(d, TAB, <<BACKSLASH, 116>>)

\* generateReversedContent of extractionHelpers: the document is split and joined
\* again for every item; an item with no translation, no index (or index 0), no
\* prefix, or an index past the end is passed over
RECURSIVE generateReversedContent_extraction(_, _, _)
generateReversedContent_extraction(updated, data, translationMap) ==
  IF data = <<>> THEN updated
  ELSE LET item == data[1]
           translation == MapGet(translationMap, item.term)
           lines == Split(updated, LF)
           newLine == item.linePrefix
                        \o escapeTranslation_extraction(applyRTLFormatting_rtl(translation))
                        \o <<QUOTE>>
       IN generateReversedContent_extraction(
            IF \/ ~Truthy(translation)
               \/ item.dataLineIndex \in {Undefined, 0}
               \/ ~Truthy(item.linePrefix)
               \/ item.dataLineIndex >= Len(lines)
            THEN updated
            ELSE Join([lines EXCEPT ![item.dataLineIndex + 1] = newLine], <<LF>>),
            Tail(data), translationMap)

\* ---------------------------------------------------------------------------
\* Shaped merges run on one document, item list and translation map
\* ---------------------------------------------------------------------------

\* how many extracted items a merge is given
MaxItems == 2

TermG == <<71>>
TermH == <<72>>

\* #Term: G / [0] /   0 string data = "a"
MergeDocument ==
  Join(<<LineTermG, LineSlot0, ValueLine(<<SPACE, SPACE>>, <<48>>, <<97>>)>>, <<LF>>)

MergeContents == {MergeDocument, LineTermG}

\* prefix as the worker's extraction captures it, and as extractionHelpers writes it
PrefixIndent == <<SPACE, SPACE, 48, SPACE>>
PrefixThroughQuote == <<SPACE, SPACE, 48, SPACE>> \o STR_STRING_DATA_EQ_QUOTE

MergeItems ==
  { [term |-> TermG, originalText |-> <<97>>, dataLineIndex |-> 2, linePrefix |-> PrefixIndent],
    [term |-> TermG, originalText |-> <<97>>, dataLineIndex |-> 2, linePrefix |-> PrefixThroughQuote],
    [term |-> TermG, originalText |-> <<97>>, dataLineIndex |-> 2, linePrefix |-> <<>>],
    [term |-> TermG, originalText |-> <<>>, dataLineIndex |-> Undefined, linePrefix |-> UndefinedStr],
    [term |-> TermH, originalText |-> <<97>>, dataLineIndex |-> 0, linePrefix |-> PrefixIndent],
    [term |-> TermH, originalText |-> <<97>>, dataLineIndex |-> 4, linePrefix |-> PrefixThroughQuote] }

TranslationTexts ==
  { <<>>,                                   \* empty
    <<72, 105>>,                            \* Hi
    <<97>>,                                 \* a, the text already in the document
    <<1587, 1604, 1575, 1605>>,             \* seen, lam, alef, meem
    <<97, QUOTE, 98>>,                      \* a"b
    <<BACKSLASH, LF, TAB>>,                 \* backslash, newline, tab
    <<1603, 1607, SPACE, 97>> }             \* Arabic kaf, heh, space, a

TranslationMaps ==
  {<<>>} \cup { <<<<TermG, t>>>> : t \in TranslationTexts }
         \cup { <<<<TermH, <<72, 105>>>>, <<TermG, t>>>> : t \in TranslationTexts }

NotRun == UndefinedStr

MergeInputs ==
  { [content |-> c, extractedData |-> d, translationMap |-> m] :
      c \in MergeContents,
      d \in UNION { [1..n -> MergeItems] : n \in 1..MaxItems },
      m \in TranslationMaps }

MergeInit ==
  /\ RunnerInit
  /\ pin \in MergeInputs
  /\ pout = [worker |-> NotRun, helpers |-> NotRun, extraction |-> NotRun]

\* createDownloadPromise posts GENERATE_REVERSED; the worker's reply carries the document
MergeShapedWorker ==
  /\ pout.worker = NotRun
  /\ pout' = [pout EXCEPT !.worker =
                handleGenerateReversed(pin.content, pin.extractedData,
                                       ArrayFromEntries(pin.translationMap))]
  /\ UNCHANGED <<rvars, pin>>

\* handleDownloadReversed without the worker
MergeShapedInProcess ==
  /\ pout.helpers = NotRun
  /\ pout' = [pout EXCEPT !.helpers =
                generateReversedContent_helpers(pin.content, pin.extractedData,
                                                pin.translationMap)]
  /\ UNCHANGED <<rvars, pin>>

\* generateReversedContent of extractionHelpers, in process
MergeShapedExtraction ==
  /\ pout.extraction = NotRun
  /\ pout' = [pout EXCEPT !.extraction =
                generateReversedContent_extraction(pin.content, pin.extractedData,
                                                   pin.translationMap)]
  /\ UNCHANGED <<rvars, pin>>

MergeNext == MergeShapedWorker \/ MergeShapedInProcess \/ MergeShapedExtraction

SpecMerge == MergeInit /\ [][MergeNext]_vars

\* ---------------------------------------------------------------------------
\* Extractor of the worker (handleExtract)
\* ---------------------------------------------------------------------------

STR_STRING_TERM_EQ_QUOTE ==                                       \* string Term = "
  <<115, 116, 114, 105, 110, 103, 32, 84, 101, 114, 109, 32, 61, 32, 34>>

NotQuote == (0..65535) \ {QUOTE}

\* line.match(re) of a pattern with no ^: the leftmost position the pattern matches at
FirstMatch(line, MatchAt(_, _)) ==
  LET starts == { k \in 1..(Len(line) + 1) : MatchAt(line, k).ok }
  IN IF starts = {} THEN NoMatch
     ELSE MatchAt(line, CHOOSE k \in starts : \A m \in starts : k <= m)

\* REGEX.TERM of the worker  /string Term = "([^"]+)"/  tried at position k
WorkerTermAt(line, k) ==
  LET rest == Drop(line, k - 1)
      body == Drop(rest, Len(STR_STRING_TERM_EQ_QUOTE))
      nb == Span(body, NotQuote)
  IN IF StartsWith(rest, STR_STRING_TERM_EQ_QUOTE) /\ nb >= 1 /\ nb < Len(body)
     THEN [ok |-> TRUE, label |-> Take(body, nb)]
     ELSE NoMatch

\* REGEX.BRACKET of the worker  /\[(\d+)\]/  tried at position k
WorkerBracketAt(line, k) ==
  LET rest == Drop(line, k - 1)
      nd == Span(Tail(rest), Digits)
  IN IF rest # <<>> /\ rest[1] = 91 /\ nd >= 1 /\ nd + 2 <= Len(rest) /\ rest[nd + 2] = 93
     THEN [ok |-> TRUE, num |-> SubSeq(rest, 2, nd + 1)]
     ELSE NoMatch

\* REGEX.DATA of the worker  /(\s*)(\d+\s+)?string data = "([^"]*)"/  tried at
\* position k: white space, then the slot number and white space if they are there
WorkerDataAt(line, k) ==
  LET rest == Drop(line, k - 1)
      n1 == Span(rest, WhiteSpace)
      s1 == Drop(rest, n1)
      nd == Span(s1, Digits)
      nw == Span(Drop(s1, nd), WhiteSpace)
      withNum == nd >= 1 /\ nw >= 1
                   /\ StartsWith(Drop(s1, nd + nw), STR_STRING_DATA_EQ_QUOTE)
      n2 == IF withNum THEN nd + nw ELSE 0
      body == Drop(s1, n2 + Len(STR_STRING_DATA_EQ_QUOTE))
      nb == Span(body, NotQuote)
  IN IF StartsWith(Drop(s1, n2), STR_STRING_DATA_EQ_QUOTE) /\ nb < Len(body)
     THEN [ok |-> TRUE, g1 |-> Take(rest, n1), g2 |-> Take(s1, n2), g3 |-> Take(body, nb)]
     ELSE NoMatch

\* no current term yet
Null == [term |-> UndefinedStr]

\* the loop of handleExtract from line i (counting from 0) on
RECURSIVE HandleExtractLoop(_, _, _, _, _, _, _)
HandleExtractLoop(lines, targetIndex, i, currentTerm, isFound, bracketIndex, results) ==
  IF i >= Len(lines)
  THEN IF currentTerm # Null THEN Append(results, currentTerm) ELSE results
  ELSE
    LET line == lines[i + 1]
        termMatch == FirstMatch(line, WorkerTermAt)
        bracketMatch == FirstMatch(line, WorkerBracketAt)
        \* after the term check
        results1 == IF termMatch.ok /\ currentTerm # Null
                    THEN Append(results, currentTerm) ELSE results
        term1 == IF termMatch.ok
                 THEN [term |-> termMatch.label, originalText |-> <<>>,
                       dataLineIndex |-> Undefined, linePrefix |-> UndefinedStr]
                 ELSE currentTerm
        found1 == IF termMatch.ok THEN FALSE ELSE isFound
        bracket1 == IF termMatch.ok THEN -1 ELSE bracketIndex
        \* after the bracket check
        bracket2 == IF bracketMatch.ok /\ term1 # Null
                    THEN ParseInt(bracketMatch.num) ELSE bracket1
        \* the data check
        hasNext == i + 1 < Len(lines) /\ lines[i + 2] # <<>>
        dataMatch == IF hasNext THEN FirstMatch(lines[i + 2], WorkerDataAt) ELSE NoMatch
        take == term1 # Null /\ ~found1 /\ bracket2 = targetIndex /\ dataMatch.ok
        term2 == IF take
                 THEN [term |-> term1.term, originalText |-> dataMatch.g3,
                       dataLineIndex |-> i + 1, linePrefix |-> dataMatch.g1 \o dataMatch.g2]
                 ELSE term1
    IN HandleExtractLoop(lines, targetIndex, i + 1, term2, found1 \/ take, bracket2, results1)

\* the "extracted" of the worker's reply to EXTRACT
handleExtract(c, targetIndex) ==
  HandleExtractLoop(Split(c, LF), targetIndex, 0, Null, FALSE, -1, <<>>)

\*  1 string Term = "G"
WorkerLineTermG == <<SPACE, 49, SPACE>> \o STR_STRING_TERM_EQ_QUOTE \o <<71, QUOTE>>
WorkerLineTermH == <<SPACE, 49, SPACE>> \o STR_STRING_TERM_EQ_QUOTE \o <<72, QUOTE>>

ExtractWorkerChunks ==
  { <<WorkerLineTermG>>,
    <<WorkerLineTermH>>,
    <<LineSlot0, ValueLine(<<SPACE, SPACE>>, <<48>>, <<97>>)>>,                 \*   0 .. "a"
    <<LineSlot0, ValueLine(<<>>, <<48>>, <<98>>)>>,                             \* 0 .. "b"
    <<LineSlot1, ValueLine(<<SPACE, SPACE>>, <<49>>, <<99>>)>>,                 \*   1 .. "c"
    <<LineSlot0, <<SPACE, SPACE, 48, SPACE>> \o STR_STRING_DATA_EQ_QUOTE \o <<97>>>>,  \* no closing quote
    <<LineSlot0>>,                                                              \* no value line
    <<<<>>>> }                                                                  \* a blank line

ExtractWorkerInputs ==
  { [content |-> FileContent(chunks, style), targetIndex |-> t] :
      chunks \in UNION { [1..n -> ExtractWorkerChunks] : n \in 1..MaxChunks },
      style \in FileStyles, t \in TargetIndexes }

ExtractWorkerInit ==
  /\ RunnerInit
  /\ pin \in ExtractWorkerInputs
  /\ pout = NoCall

\* the worker answers an EXTRACT message
CallHandleExtract ==
  /\ ~pout.done
  /\ pout' = [done |-> TRUE, items |-> handleExtract(pin.content, pin.targetIndex)]
  /\ UNCHANGED <<rvars, pin>>

ExtractWorkerNext == CallHandleExtract

SpecExtractWorker == ExtractWorkerInit /\ [][ExtractWorkerNext]_vars

\* ---------------------------------------------------------------------------
\* Unshaped merge: applyTranslations (two in-process ones) and the worker's
\* ---------------------------------------------------------------------------

\* the escaping written out in applyTranslations of extractionHelpers
escapeTranslation_apply(translation) ==
  LET a == ReplaceChar(translation, BACKSLASH, <<BACKSLASH, BACKSLASH>>)
      b == ReplaceChar(a, QUOTE, <<BACKSLASH, QUOTE>>)
      c == ReplaceChar(b, LF, <<BACKSLASH, 110>>)
      d == ReplaceChar(c, CR, <<BACKSLASH, 114>>)
  IN ReplaceChar(d, TAB, <<BACKSLASH, 116>>)

\* applyTranslations of extractionHelpers: an item with no translation, no index (or
\* index 0), no prefix, or an index past the end is passed over; a line is written,
\* and counted, only when the new line differs from the one in place
RECURSIVE ApplyLoop_extraction(_, _, _, _)
ApplyLoop_extraction(updated, count, data, translationMap) ==
  IF data = <<>> THEN [updated |-> updated, count |-> count]
  ELSE LET item == data[1]
           translation == MapGet(translationMap, item.term)
           lines == Split(updated, LF)
           oldLine == lines[item.dataLineIndex + 1]
           newLine == item.linePrefix \o escapeTranslation_apply(translation) \o <<QUOTE>>
           skip == \/ ~Truthy(translation)
                   \/ item.dataLineIndex \in {Undefined, 0}
                   \/ ~Truthy(item.linePrefix)
                   \/ item.dataLineIndex >= Len(lines)
       IN IF skip \/ oldLine = newLine
          THEN ApplyLoop_extraction(updated, count, Tail(data), translationMap)
          ELSE ApplyLoop_extraction(
                 Join([lines EXCEPT ![item.dataLineIndex + 1] = newLine], <<LF>>),
                 count + 1, Tail(data), translationMap)

applyTranslations_extraction(c, data, translationMap) ==
  ApplyLoop_extraction(c, 0, data, translationMap)

\* the line translationHelpers writes for an item
AppliedLine_helpers(item, translation) ==
  (IF Truthy(item.linePrefix) THEN item.linePrefix ELSE <<>>)
    \o STR_STRING_DATA_EQ_QUOTE
    \o escapeSpecialCharacters_helpers(translation)
    \o <<QUOTE>>

\* data.forEach of applyTranslations of translationHelpers: every item with a
\* translation and an index is written and counted
RECURSIVE ApplyLoop_helpers(_, _, _, _)
ApplyLoop_helpers(lines, appliedCount, data, translationMap) ==
  IF data = <<>> THEN [updated |-> Join(lines, <<LF>>), count |-> appliedCount]
  ELSE LET item == data[1]
           translation == MapGet(translationMap, item.term)
       IN IF Truthy(translation) /\ item.dataLineIndex # Undefined
          THEN ApplyLoop_helpers(
                 SetLine(lines, item.dataLineIndex, AppliedLine_helpers(item, translation)),
                 appliedCount + 1, Tail(data), translationMap)
          ELSE ApplyLoop_helpers(lines, appliedCount, Tail(data), translationMap)

applyTranslations_helpers(c, data, translationMap) ==
  ApplyLoop_helpers(Split(c, LF), 0, data, translationMap)

\* the line the worker writes for an item
AppliedLine_worker(item, translation) ==
  (IF Truthy(item.linePrefix) THEN item.linePrefix ELSE <<>>)
    \o STR_STRING_DATA_EQ_QUOTE
    \o escapeSpecialCharacters_worker(translation)
    \o <<QUOTE>>

RECURSIVE ApplyLoop_worker(_, _, _, _)
ApplyLoop_worker(lines, appliedCount, extractedData, map) ==
  IF extractedData = <<>> THEN [updated |-> Join(lines, <<LF>>), count |-> appliedCount]
  ELSE LET item == extractedData[1]
           translation == MapGet(map, item.term)
       IN IF Truthy(translation) /\ item.dataLineIndex # Undefined
          THEN ApplyLoop_worker(
                 SetLine(lines, item.dataLineIndex, AppliedLine_worker(item, translation)),
                 appliedCount + 1, Tail(extractedData), map)
          ELSE ApplyLoop_worker(lines, appliedCount, Tail(extractedData), map)

\* the "updated" and "count" of the worker's APPLY_RESULT reply
handleApplyTranslations(c, extractedData, translationsMap) ==
  ApplyLoop_worker(Split(c, LF), 0, extractedData, NewMap(translationsMap))

\* ---------------------------------------------------------------------------
\* Unshaped merges run on one document, item list and translation map, and run
\* again on their own output
\* ---------------------------------------------------------------------------

NoResult == [updated |-> NotRun, count |-> 0]

Appliers == {"extraction", "helpers", "worker"}

\* the merge of one implementation
Applied(impl, c, data, translationMap) ==
  CASE impl = "extraction" -> applyTranslations_extraction(c, data, translationMap)
    [] impl = "helpers" -> applyTranslations_helpers(c, data, translationMap)
    [] impl = "worker" -> handleApplyTranslations(c, data, ArrayFromEntries(translationMap))

ApplyInit ==
  /\ RunnerInit
  /\ pin \in MergeInputs
  /\ pout = [impl |-> "none", first |-> NoResult, second |-> NoResult]

FirstApply(impl) ==
  /\ pout.impl = "none"
  /\ pout' = [pout EXCEPT !.impl = impl,
                          !.first = Applied(impl, pin.content, pin.extractedData,
                                            pin.translationMap)]
  /\ UNCHANGED <<rvars, pin>>

\* applyTranslations of extractionHelpers
ApplyExtraction == FirstApply("extraction")

\* applyTranslations of translationHelpers, which handleImport of the page calls
ApplyInProcess == FirstApply("helpers")

\* the worker answers an APPLY_TRANSLATIONS message
ApplyWorker == FirstApply("worker")

\* the same items and map are applied to the output of the first application
ApplyAgain ==
  /\ pout.impl # "none"
  /\ pout.second = NoResult
  /\ pout' = [pout EXCEPT !.second = Applied(pout.impl, pout.first.updated,
                                             pin.extractedData, pin.translationMap)]
  /\ UNCHANGED <<rvars, pin>>

ApplyNext == ApplyExtraction \/ ApplyInProcess \/ ApplyWorker \/ ApplyAgain

SpecApply == ApplyInit /\ [][ApplyNext]_vars

\* ---------------------------------------------------------------------------
\* Escaping a text for a merge and unescaping it again at extraction
\* ---------------------------------------------------------------------------

\* escapeSpecialCharacters of rtlHelpers
escapeSpecialCharacters_rtl(text) ==
  LET a == ReplaceChar(text, BACKSLASH, <<BACKSLASH, BACKSLASH>>)
      b == ReplaceChar(a, QUOTE, <<BACKSLASH, QUOTE>>)
      c == ReplaceChar(b, LF, <<BACKSLASH, 110>>)
      d == ReplaceChar(c, CR, <<BACKSLASH, 114>>)
  IN ReplaceChar(d, TAB, <<BACKSLASH, 116>>)

\* the longest text that is escaped
MaxText == 3

\* a, n, and the five characters the escape grammar names
EscapeAlphabet == {97, 110, QUOTE, BACKSLASH, LF, TAB, CR}

EscapeInputs ==
  { [text |-> s] : s \in UNION { [1..n -> EscapeAlphabet] : n \in 0..MaxText } }

EscapeInit ==
  /\ RunnerInit
  /\ pin \in EscapeInputs
  /\ pout = [escaped |-> NotRun, unescaped |-> NotRun]

\* a merge escapes the text, with the replacements of applyTranslations or with
\* escapeSpecialCharacters
CallEscape ==
  /\ pout.escaped = NotRun
  /\ \E inApply \in BOOLEAN :
       pout' = [pout EXCEPT !.escaped = IF inApply THEN escapeTranslation_apply(pin.text)
                                        ELSE escapeSpecialCharacters_rtl(pin.text)]
  /\ UNCHANGED <<rvars, pin>>

\* extraction reads the escaped literal back
CallUnescape ==
  /\ pout.escaped # NotRun
  /\ pout.unescaped = NotRun
  /\ pout' = [pout EXCEPT !.unescaped = Unescape(pout.escaped)]
  /\ UNCHANGED <<rvars, pin>>

EscapeNext == CallEscape \/ CallUnescape

SpecEscape == EscapeInit /\ [][EscapeNext]_vars

\* ---------------------------------------------------------------------------
\* JSON.parse, Object.entries and String(), as parseTranslations uses them
\* ---------------------------------------------------------------------------

\* a parsed value: t is its type, s the text of a string, number or literal,
\* kids the <<key, value>> pairs of an object or array (array keys are "0", "1", ..)
JsonValue(t, s, kids) == [t |-> t, s |-> s, kids |-> kids]

JsonWs == {SPACE, TAB, LF, CR}

SkipWs(s) == Drop(s, Span(s, JsonWs))

HexDigits == Digits \cup (65..70) \cup (97..102)

HexVal(c) == IF c \in Digits THEN c - 48 ELSE IF c >= 97 THEN c - 87 ELSE c - 55

\* the character a simple escape stands for; 0 for none
JsonEscape(c) ==
  CASE c = QUOTE -> QUOTE [] c = BACKSLASH -> BACKSLASH [] c = 47 -> 47
    [] c = 98 -> 8 [] c = 102 -> 12 [] c = 110 -> LF [] c = 114 -> CR [] c = 116 -> TAB
    [] OTHER -> 0

\* the characters of a string literal after its opening quote
RECURSIVE JsonChars(_, _)
JsonChars(s, acc) ==
  IF s = <<>> \/ s[1] < 32 THEN NoMatch
  ELSE IF s[1] = QUOTE THEN [ok |-> TRUE, v |-> acc, rest |-> Tail(s)]
  ELSE IF s[1] # BACKSLASH THEN JsonChars(Tail(s), Append(acc, s[1]))
  ELSE IF Len(s) < 2 THEN NoMatch
  ELSE IF JsonEscape(s[2]) # 0 THEN JsonChars(Drop(s, 2), Append(acc, JsonEscape(s[2])))
  ELSE IF s[2] = 117 /\ Len(s) >= 6 /\ \A k \in 3..6 : s[k] \in HexDigits
       THEN JsonChars(Drop(s, 6),
              Append(acc, 4096 * HexVal(s[3]) + 256 * HexVal(s[4])
                            + 16 * HexVal(s[5]) + HexVal(s[6])))
  ELSE NoMatch

JsonString(s) ==
  IF s # <<>> /\ s[1] = QUOTE THEN JsonChars(Tail(s), <<>>) ELSE NoMatch

\* the length of the number at the head of s; 0 for none
JsonNumberSpan(s) ==
  LET sign == IF s # <<>> /\ s[1] = 45 THEN 1 ELSE 0
      s1 == Drop(s, sign)
      int == IF s1 # <<>> /\ s1[1] = 48 THEN 1 ELSE Span(s1, Digits)
      s2 == Drop(s1, int)
      frac == IF Len(s2) >= 2 /\ s2[1] = 46 /\ s2[2] \in Digits
              THEN 1 + Span(Tail(s2), Digits) ELSE 0
      s3 == Drop(s2, frac)
      esign == IF Len(s3) >= 2 /\ s3[2] \in {43, 45} THEN 1 ELSE 0
      edig == Span(Drop(s3, 1 + esign), Digits)
      exp == IF s3 # <<>> /\ s3[1] \in {69, 101} /\ edig >= 1 THEN 1 + esign + edig ELSE 0
  IN IF int = 0 THEN 0 ELSE sign + int + frac + exp

STR_TRUE == <<116, 114, 117, 101>>
STR_FALSE == <<102, 97, 108, 115, 101>>
STR_NULL == <<110, 117, 108, 108>>

\* obj[key] = value: a key already there keeps its place
PutKid(kids, key, value) ==
  IF \E n \in 1..Len(kids) : kids[n][1] = key
  THEN [n \in 1..Len(kids) |-> IF kids[n][1] = key THEN <<key, value>> ELSE kids[n]]
  ELSE Append(kids, <<key, value>>)

\* a number written in decimal digits
RECURSIVE DecimalDigits(_)
DecimalDigits(n) ==
  IF n < 10 THEN <<48 + n>> ELSE Append(DecimalDigits(n \div 10), 48 + (n % 10))

RECURSIVE JsonParseValue(_)
RECURSIVE JsonMembers(_, _)
RECURSIVE JsonElements(_, _)

\* the members of an object from the first key on
JsonMembers(s, kids) ==
  LET key == JsonString(s)
      s1 == SkipWs(key.rest)
      val == JsonParseValue(SkipWs(Tail(s1)))
      s2 == SkipWs(val.rest)
      kids1 == PutKid(kids, key.v, val.v)
  IN IF ~key.ok \/ s1 = <<>> \/ s1[1] # 58 THEN NoMatch
     ELSE IF ~val.ok \/ s2 = <<>> THEN NoMatch
     ELSE IF s2[1] = 125
          THEN [ok |-> TRUE, v |-> JsonValue("object", <<>>, kids1), rest |-> Tail(s2)]
     ELSE IF s2[1] = 44 THEN JsonMembers(SkipWs(Tail(s2)), kids1)
     ELSE NoMatch

\* the elements of an array from the first one on
JsonElements(s, kids) ==
  LET val == JsonParseValue(s)
      s2 == SkipWs(val.rest)
      kids1 == Append(kids, <<DecimalDigits(Len(kids)), val.v>>)
  IN IF ~val.ok \/ s2 = <<>> THEN NoMatch
     ELSE IF s2[1] = 93
          THEN [ok |-> TRUE, v |-> JsonValue("array", <<>>, kids1), rest |-> Tail(s2)]
     ELSE IF s2[1] = 44 THEN JsonElements(SkipWs(Tail(s2)), kids1)
     ELSE NoMatch

\* the value at the head of s
JsonParseValue(s) ==
  IF s = <<>> THEN NoMatch
  ELSE IF s[1] = QUOTE
       THEN LET str == JsonString(s)
            IN IF str.ok
               THEN [ok |-> TRUE, v |-> JsonValue("string", str.v, <<>>), rest |-> str.rest]
               ELSE NoMatch
  ELSE IF s[1] = 123
       THEN LET s1 == SkipWs(Tail(s))
            IN IF s1 # <<>> /\ s1[1] = 125
               THEN [ok |-> TRUE, v |-> JsonValue("object", <<>>, <<>>), rest |-> Tail(s1)]
               ELSE JsonMembers(s1, <<>>)
  ELSE IF s[1] = 91
       THEN LET s1 == SkipWs(Tail(s))
            IN IF s1 # <<>> /\ s1[1] = 93
               THEN [ok |-> TRUE, v |-> JsonValue("array", <<>>, <<>>), rest |-> Tail(s1)]
               ELSE JsonElements(s1, <<>>)
  ELSE IF StartsWith(s, STR_TRUE)
       THEN [ok |-> TRUE, v |-> JsonValue("boolean", STR_TRUE, <<>>), rest |-> Drop(s, 4)]
  ELSE IF StartsWith(s, STR_FALSE)
       THEN [ok |-> TRUE, v |-> JsonValue("boolean", STR_FALSE, <<>>), rest |-> Drop(s, 5)]
  ELSE IF StartsWith(s, STR_NULL)
       THEN [ok |-> TRUE, v |-> JsonValue("null", STR_NULL, <<>>), rest |-> Drop(s, 4)]
  ELSE IF JsonNumberSpan(s) > 0
       THEN [ok |-> TRUE, v |-> JsonValue("number", Take(s, JsonNumberSpan(s)), <<>>),
             rest |-> Drop(s, JsonNumberSpan(s))]
  ELSE NoMatch

\* a value was read and only white space follows it
JsonWhole(val) ==
  IF val.ok /\ SkipWs(val.rest) = <<>> THEN [ok |-> TRUE, v |-> val.v] ELSE NoMatch

\* JSON.parse(text): ok is FALSE where it throws
JsonParse(text) == JsonWhole(JsonParseValue(SkipWs(text)))

\* a key that Object.entries lists before the others, in ascending order
IsIndexKey(key) ==
  /\ key # <<>>
  /\ \A k \in 1..Len(key) : key[k] \in Digits
  /\ (Len(key) = 1 \/ key[1] # 48)

RECURSIVE SortKids(_)
SortKids(kids) ==
  IF kids = <<>> THEN kids
  ELSE LET n == CHOOSE n \in 1..Len(kids) :
                  \A m \in 1..Len(kids) : ParseInt(kids[n][1]) <= ParseInt(kids[m][1])
       IN <<kids[n]>> \o SortKids(Take(kids, n - 1) \o Drop(kids, n))

\* Object.entries(value) of an object or array
ObjectEntries(value) ==
  IF value.t = "array" THEN value.kids
  ELSE SortKids(SelectSeq(value.kids, LAMBDA kid : IsIndexKey(kid[1])))
         \o SelectSeq(value.kids, LAMBDA kid : ~IsIndexKey(kid[1]))

STR_OBJECT_OBJECT ==                                              \* [object Object]
  <<91, 111, 98, 106, 101, 99, 116, 32, 79, 98, 106, 101, 99, 116, 93>>

\* String(value); a number prints as it is written (integers below 2^53)
RECURSIVE ToStr(_)
ToStr(value) ==
  IF value.t = "object" THEN STR_OBJECT_OBJECT
  ELSE IF value.t = "array"
       THEN Join([n \in 1..Len(value.kids) |->
                    IF value.kids[n][2].t = "null" THEN <<>> ELSE ToStr(value.kids[n][2])],
                 <<44>>)
  ELSE value.s

\* the value counts as true in a condition
JsTruthy(value) ==
  CASE value.t = "string" -> value.s # <<>>
    [] value.t = "number" -> \E k \in 1..Span(value.s, {45, 46} \cup Digits) :
                               value.s[k] \in 49..57
    [] value.t = "boolean" -> value.s = STR_TRUE
    [] value.t = "null" -> FALSE
    [] OTHER -> TRUE

\* value?.name: ok is FALSE for undefined
GetProp(value, name) ==
  IF value.t = "object" /\ \E n \in 1..Len(value.kids) : value.kids[n][1] = name
  THEN [ok |-> TRUE,
        v |-> value.kids[CHOOSE n \in 1..Len(value.kids) : value.kids[n][1] = name][2]]
  ELSE NoMatch

STR_TERM_KEY == <<116, 101, 114, 109>>                                      \* term
STR_TRANSLATION_KEY == <<116, 114, 97, 110, 115, 108, 97, 116, 105, 111, 110>>  \* translation

\* what the JSON part of parseTranslations gives: the map it returns, or that the
\* content goes on to the line formats
Returned(map) == [ran |-> TRUE, returned |-> TRUE, map |-> map]
NotJson == [ran |-> TRUE, returned |-> FALSE, map |-> <<>>]

\* Object.entries(parsed).forEach of extractionHelpers: string values only
RECURSIVE StringEntries(_, _)
StringEntries(entries, map) ==
  IF entries = <<>> THEN map
  ELSE StringEntries(Tail(entries),
         IF entries[1][2].t = "string"
         THEN MapPut(map, entries[1][1], entries[1][2].s) ELSE map)

\* the JSON part of parseTranslations of extractionHelpers; parsed is what
\* JSON.parse(content) gives
JsonPart_extraction(c, parsed) ==
  IF Trim(c) = <<>> THEN Returned(<<>>)
  ELSE IF parsed.ok /\ parsed.v.t \in {"object", "array"}
       THEN Returned(StringEntries(ObjectEntries(parsed.v), <<>>))
       ELSE NotJson

\* parseTranslations of extractionHelpers up to the end of its JSON part
parseTranslationsJson_extraction(c) == JsonPart_extraction(c, JsonParse(c))

\* parsed.forEach of translationHelpers: records with a term and a translation
RECURSIVE RecordEntries(_, _)
RecordEntries(kids, translationMap) ==
  IF kids = <<>> THEN translationMap
  ELSE LET item == kids[1][2]
           term == GetProp(item, STR_TERM_KEY)
           translation == GetProp(item, STR_TRANSLATION_KEY)
       IN RecordEntries(Tail(kids),
            IF term.ok /\ JsTruthy(term.v) /\ translation.ok /\ JsTruthy(translation.v)
            THEN MapPut(translationMap, ToStr(term.v), ToStr(translation.v))
            ELSE translationMap)

\* Object.entries(parsed).forEach of translationHelpers: every value, as a string
RECURSIVE AllEntries(_, _)
AllEntries(entries, translationMap) ==
  IF entries = <<>> THEN translationMap
  ELSE AllEntries(Tail(entries),
         MapPut(translationMap, entries[1][1], ToStr(entries[1][2])))

\* the JSON part of parseTranslations of translationHelpers; parsed is what
\* JSON.parse(trimmed) gives
JsonPart_helpers(trimmed, parsed) ==
  IF trimmed # <<>> /\ trimmed[1] \in {123, 91} /\ parsed.ok
  THEN IF parsed.v.t = "array" THEN Returned(RecordEntries(parsed.v.kids, <<>>))
       ELSE Returned(AllEntries(ObjectEntries(parsed.v), <<>>))
  ELSE NotJson

\* parseTranslations of translationHelpers up to the end of its JSON part
parseTranslationsJson_helpers(c) == JsonPart_helpers(Trim(c), JsonParse(Trim(c)))

\* ---------------------------------------------------------------------------
\* Translation documents in JSON
\* ---------------------------------------------------------------------------

\* how many term/text pairs a translation document holds
MaxPairs == 2

ParseTexts ==
  { <<72, 105>>,                \* Hi
    <<97, QUOTE, 98>>,          \* a"b
    <<1587, 1604>> }            \* seen, lam

\* a string literal of JSON.stringify
JsonQuote(s) ==
  LET a == ReplaceChar(s, BACKSLASH, <<BACKSLASH, BACKSLASH>>)
      b == ReplaceChar(a, QUOTE, <<BACKSLASH, QUOTE>>)
  IN <<QUOTE>> \o ReplaceChar(b, LF, <<BACKSLASH, 110>>) \o <<QUOTE>>

\* {"G":"Hi","H":".."}  or, spaced, one member a line
ObjectDocument(pairs, spaced) ==
  LET colon == IF spaced THEN <<58, SPACE>> ELSE <<58>>
      comma == IF spaced THEN <<44, LF, SPACE, SPACE>> ELSE <<44>>
      open == IF spaced /\ pairs # <<>> THEN <<123, LF, SPACE, SPACE>> ELSE <<123>>
      close == IF spaced /\ pairs # <<>> THEN <<LF, 125>> ELSE <<125>>
  IN open
       \o Join([n \in 1..Len(pairs) |->
                  JsonQuote(pairs[n][1]) \o colon \o JsonQuote(pairs[n][2])], comma)
       \o close

\* [{"term":"G","translation":"Hi"},..]
ArrayDocument(pairs, spaced) ==
  LET colon == IF spaced THEN <<58, SPACE>> ELSE <<58>>
      comma == IF spaced THEN <<44, SPACE>> ELSE <<44>>
  IN <<91>>
       \o Join([n \in 1..Len(pairs) |->
                  <<123>> \o JsonQuote(STR_TERM_KEY) \o colon \o JsonQuote(pairs[n][1])
                    \o comma \o JsonQuote(STR_TRANSLATION_KEY) \o colon
                    \o JsonQuote(pairs[n][2]) \o <<125>>], comma)
       \o <<93>>

ParsePairs ==
  UNION { [1..n -> { <<term, text>> : term \in {TermG, TermH}, text \in ParseTexts }] :
            n \in 0..MaxPairs }

ParseInputs ==
  { [content |-> ObjectDocument(pairs, spaced), shape |-> "object", pairs |-> pairs] :
      pairs \in ParsePairs, spaced \in BOOLEAN }
  \cup
  { [content |-> ArrayDocument(pairs, spaced), shape |-> "array", pairs |-> pairs] :
      pairs \in ParsePairs, spaced \in BOOLEAN }
  \cup
  { [content |-> c, shape |-> "other", pairs |-> <<>>] :
      c \in { <<72, 105>>, JsonQuote(<<72, 105>>), <<123, QUOTE, 71, QUOTE, 125>> } }

NotParsed == [ran |-> FALSE, returned |-> FALSE, map |-> <<>>]

ParseInit ==
  /\ RunnerInit
  /\ pin \in ParseInputs
  /\ pout = [extraction |-> NotParsed, helpers |-> NotParsed]

\* parseTranslations of extractionHelpers reads the document
ParseExtraction ==
  /\ ~pout.extraction.ran
  /\ pout' = [pout EXCEPT !.extraction = parseTranslationsJson_extraction(pin.content)]
  /\ UNCHANGED <<rvars, pin>>

\* parseTranslations of translationHelpers, which handleImport of the page calls
ParseInProcess ==
  /\ ~pout.helpers.ran
  /\ pout' = [pout EXCEPT !.helpers = parseTranslationsJson_helpers(pin.content)]
  /\ UNCHANGED <<rvars, pin>>

ParseNext == ParseExtraction \/ ParseInProcess

SpecParse == ParseInit /\ [][ParseNext]_vars

\* ---------------------------------------------------------------------------
\* parseTranslations: the line formats, tried when the content is not JSON
\* ---------------------------------------------------------------------------

STR_ORIGINAL_TAG == <<35, 79, 114, 105, 103, 105, 110, 97, 108, 58>>        \* #Original:
COMMA == 44
HASH == 35
APOSTROPHE == 39

\* content.split(/\r?\n/)
SplitLines(c) == Split(ReplacePair(c, CR, LF, <<LF>>), LF)

Includes(s, char) == \E k \in 1..Len(s) : s[k] = char

\* s.replace(/^["']|["']$/g, ''): one quote mark off the start, one off the end
StripQuotes(s) ==
  LET a == IF s # <<>> /\ s[1] \in {QUOTE, APOSTROPHE} THEN Tail(s) ELSE s
  IN IF a # <<>> /\ a[Len(a)] \in {QUOTE, APOSTROPHE} THEN Take(a, Len(a) - 1) ELSE a

\* lines.indexOf(line): the first place of an equal line, from 0
IndexOf(lines, line) == MinOf({k \in 1..Len(lines) : lines[k] = line}) - 1

\* one turn of the for-of loop of parseTranslations of extractionHelpers: a row with
\* a tab, then a row with a comma, then a #Term: line with the line after it
LineStep_extraction(lines, line, map) ==
  LET trimmed == Trim(line)
      cells == Split(trimmed, TAB)
      parts == Split(trimmed, COMMA)
      commaTerm == StripQuotes(Trim(parts[1]))
      commaTranslation == StripQuotes(Trim(Join(Tail(parts), <<COMMA>>)))
      term == Trim(Drop(trimmed, 6))
      nextLineIdx == IndexOf(lines, line) + 1
      nextLine == Trim(lines[nextLineIdx + 1])
  IN IF trimmed = <<>> THEN map
     ELSE IF Includes(trimmed, TAB)
          THEN IF cells[1] # <<>> /\ cells[2] # <<>>
               THEN MapPut(map, Trim(cells[1]), Trim(cells[2])) ELSE map
     ELSE IF Includes(trimmed, COMMA)
          THEN IF commaTerm # <<>> /\ commaTranslation # <<>>
               THEN MapPut(map, commaTerm, commaTranslation) ELSE map
     ELSE IF StartsWith(trimmed, STR_TERM)
               /\ nextLineIdx < Len(lines)
               /\ nextLine # <<>>
               /\ nextLine[1] # HASH
          THEN MapPut(map, term, nextLine)
     ELSE map

RECURSIVE LineLoop_extraction(_, _, _)
LineLoop_extraction(lines, n, map) ==
  IF n > Len(lines) THEN map
  ELSE LineLoop_extraction(lines, n + 1, LineStep_extraction(lines, lines[n], map))

\* the line formats of extractionHelpers, tried when the JSON part did not return
LinePart_extraction(c, json) ==
  IF json.returned THEN json.map
  ELSE LineLoop_extraction(SplitLines(c), 1, <<>>)

\* parseTranslations of extractionHelpers
parseTranslations_extraction(c) ==
  LinePart_extraction(c, parseTranslationsJson_extraction(c))

\* currentLine.match(/^"(.+)","(.+)"$/): the first group is the longest one that
\* lets the rest match
CsvMatch(line) ==
  LET n == Len(line)
      seps == {p \in 3..(n - 4) :
                 /\ SubSeq(line, p, p + 2) = <<QUOTE, COMMA, QUOTE>>
                 /\ \A k \in 2..(n - 1) : line[k] \notin LineTerminators}
      p == MaxOf(seps)
  IN IF n >= 7 /\ line[1] = QUOTE /\ line[n] = QUOTE /\ seps # {}
     THEN [ok |-> TRUE, g1 |-> SubSeq(line, 2, p - 1), g2 |-> SubSeq(line, p + 3, n - 1)]
     ELSE [ok |-> FALSE, g1 |-> <<>>, g2 |-> <<>>]

\* nextLine.match(/^".*",".*"$/)
LooksLikeCsv(line) ==
  LET n == Len(line)
  IN /\ n >= 5
     /\ line[1] = QUOTE
     /\ line[n] = QUOTE
     /\ \A k \in 2..(n - 1) : line[k] \notin LineTerminators
     /\ \E p \in 2..(n - 3) : SubSeq(line, p, p + 2) = <<QUOTE, COMMA, QUOTE>>

\* s.replace(/^#Term:\s*/i, '').trim() of a line that starts with the tag
AfterTag(line, tag) == Trim(Drop(line, Len(tag)))

\* the for loop of parseTranslations of translationHelpers over the trimmed lines,
\* i from 0: the tagged pair, then the quoted row, then a line and the line after it
RECURSIVE LineLoop_helpers(_, _, _)
LineLoop_helpers(lines, i, translationMap) ==
  IF i >= Len(lines) THEN translationMap
  ELSE LET currentLine == lines[i + 1]
           hasNext == i + 2 <= Len(lines) /\ lines[i + 2] # <<>>
           nextLine == lines[i + 2]
           term == AfterTag(currentLine, STR_TERM)
           translation == AfterTag(nextLine, STR_ORIGINAL_TAG)
           csvMatch == CsvMatch(currentLine)
       IN IF currentLine = <<>> THEN LineLoop_helpers(lines, i + 1, translationMap)
          ELSE IF /\ StartsWith(currentLine, STR_TERM)
                  /\ hasNext
                  /\ StartsWith(nextLine, STR_ORIGINAL_TAG)
               THEN LineLoop_helpers(lines, i + 2,
                      IF term # <<>> /\ translation # <<>>
                      THEN MapPut(translationMap, term, translation)
                      ELSE translationMap)
          ELSE IF csvMatch.ok
               THEN LineLoop_helpers(lines, i + 1,
                      MapPut(translationMap, csvMatch.g1, csvMatch.g2))
          ELSE IF hasNext /\ nextLine[1] # HASH /\ ~LooksLikeCsv(nextLine)
                    /\ Trim(nextLine) # <<>>
               THEN LineLoop_helpers(lines, i + 2,
                      MapPut(translationMap, currentLine, nextLine))
          ELSE LineLoop_helpers(lines, i + 1, translationMap)

\* the line formats of translationHelpers, tried when the JSON part did not return
LinePart_helpers(lines, json) ==
  IF json.returned THEN json.map
  ELSE LineLoop_helpers([k \in 1..Len(lines) |-> Trim(lines[k])], 0, <<>>)

\* parseTranslations of translationHelpers
parseTranslations_helpers(c) ==
  LinePart_helpers(SplitLines(c), parseTranslationsJson_helpers(c))

\* escapeCSV of the export helpers
escapeCSV(text) ==
  IF text = <<>> THEN <<QUOTE, QUOTE>>
  ELSE IF Includes(text, COMMA) \/ Includes(text, QUOTE) \/ Includes(text, LF)
       THEN <<QUOTE>> \o ReplaceChar(text, QUOTE, <<QUOTE, QUOTE>>) \o <<QUOTE>>
  ELSE text

\* ---------------------------------------------------------------------------
\* Translation documents in the line formats
\* ---------------------------------------------------------------------------

LineTexts ==
  { <<72, 105>>,                \* Hi
    <<97, COMMA, 98>>,          \* a,b
    <<97, TAB, 98>>,            \* a<tab>b
    <<97, QUOTE, 98>> }         \* a"b

LineTerms == {TermG, TermH, <<120, COMMA, 121>>}      \* G, H, x,y

LinePairs ==
  UNION { [1..n -> { <<term, text>> : term \in LineTerms, text \in LineTexts }] :
            n \in 0..MaxPairs }

\* #Term: G / #Original: Hi, pair after pair
TaggedDocument(pairs, eol) ==
  Join([k \in 1..(2 * Len(pairs)) |->
          IF k % 2 = 1 THEN STR_TERM \o <<SPACE>> \o pairs[(k + 1) \div 2][1]
          ELSE STR_ORIGINAL_TAG \o <<SPACE>> \o pairs[k \div 2][2]], eol)

\* one row a pair, each field through escapeCSV
CsvDocument(pairs, eol) ==
  Join([k \in 1..Len(pairs) |->
          escapeCSV(pairs[k][1]) \o <<COMMA>> \o escapeCSV(pairs[k][2])], eol)

LineInputs ==
  { [content |-> TaggedDocument(pairs, eol), shape |-> "tagged", pairs |-> pairs] :
      pairs \in LinePairs, eol \in {<<LF>>, <<CR, LF>>} }
  \cup
  { [content |-> CsvDocument(pairs, <<LF>>), shape |-> "csv", pairs |-> pairs] :
      pairs \in LinePairs }

NotRead == [ran |-> FALSE, map |-> <<>>]

Read(map) == [ran |-> TRUE, map |-> map]

ReadInit ==
  /\ RunnerInit
  /\ pin \in LineInputs
  /\ pout = [extraction |-> NotRead, helpers |-> NotRead]

\* parseTranslations of extractionHelpers reads the document
ReadExtraction ==
  /\ ~pout.extraction.ran
  /\ pout' = [pout EXCEPT !.extraction = Read(parseTranslations_extraction(pin.content))]
  /\ UNCHANGED <<rvars, pin>>

\* parseTranslations of translationHelpers, which handleImport of the page calls
ReadInProcess ==
  /\ ~pout.helpers.ran
  /\ pout' = [pout EXCEPT !.helpers = Read(parseTranslations_helpers(pin.content))]
  /\ UNCHANGED <<rvars, pin>>

ReadNext == ReadExtraction \/ ReadInProcess

SpecRead == ReadInit /\ [][ReadNext]_vars

\* ---------------------------------------------------------------------------
\* Shaping a text: applyRTLFormatting, one action per source file
\* ---------------------------------------------------------------------------

RTL_EMBEDDING == 8235

\* applyRTLFormatting of the earlier translation helpers: the normalised text
\* reversed as a whole, after the embedding mark
applyRTLFormatting_part005(text) ==
  LET normalized == [k \in 1..Len(text) |->
                       CASE text[k] = 1603 -> 1705
                         [] text[k] = 1610 -> 1740
                         [] text[k] = 1577 -> 1607
                         [] text[k] \in {1571, 1573} -> 1575
                         [] text[k] = 1572 -> 1608
                         [] OTHER -> text[k]]
  IN <<RTL_EMBEDDING>> \o Reverse(normalized)

ShapeAlphabet ==
  { 97, 49, 46, SPACE,      \* a 1 . and a space
    1587, 1604,             \* seen, lam: join on both sides
    1575,                   \* alef: does not join to the letter after it
    1603,                   \* Arabic kaf, normalised to Persian kaf
    1488 }                  \* Hebrew alef

ShapeInputs == UNION { [1..n -> ShapeAlphabet] : n \in 0..MaxText }

NotShaped == [ran |-> FALSE, normalized |-> <<>>, shaped |-> <<>>, out |-> <<>>]

Shaped(normalized, shaped, out) ==
  [ran |-> TRUE, normalized |-> normalized, shaped |-> shaped, out |-> out]

ShapeInit ==
  /\ RunnerInit
  /\ pin \in ShapeInputs
  /\ pout = [worker |-> NotShaped, helpers |-> NotShaped, rtl |-> NotShaped,
             part005 |-> NotShaped]

\* applyRTLFormatting of the worker
ShapeWorker ==
  /\ ~pout.worker.ran
  /\ pout' = [pout EXCEPT !.worker =
       Shaped(normalize_worker(pin),
              ShapeChars(presentationForms_worker, nonConnectors_worker,
                         normalize_worker(pin)),
              applyRTLFormatting_worker(pin))]
  /\ UNCHANGED <<rvars, pin>>

\* applyRTLFormatting of translationHelpers
ShapeInProcess ==
  /\ ~pout.helpers.ran
  /\ pout' = [pout EXCEPT !.helpers =
       Shaped(normalize_helpers(pin),
              ShapeChars(presentationForms_helpers, nonConnectors_helpers,
                         normalize_helpers(pin)),
              applyRTLFormatting_helpers(pin))]
  /\ UNCHANGED <<rvars, pin>>

\* applyRTLFormatting of rtlHelpers, with applyManualShaping
ShapeRtl ==
  /\ ~pout.rtl.ran
  /\ pout' = [pout EXCEPT !.rtl =
       Shaped(normalize_rtl(pin), applyManualShaping(normalize_rtl(pin)),
              applyRTLFormatting_rtl(pin))]
  /\ UNCHANGED <<rvars, pin>>

\* applyRTLFormatting of the earlier translation helpers, which does no shaping
ShapePart005 ==
  /\ ~pout.part005.ran
  /\ pout' = [pout EXCEPT !.part005 =
       LET out == applyRTLFormatting_part005(pin)
       IN Shaped(Reverse(Tail(out)), Reverse(Tail(out)), out)]
  /\ UNCHANGED <<rvars, pin>>

ShapeNext == ShapeWorker \/ ShapeInProcess \/ ShapeRtl \/ ShapePart005

SpecShape == ShapeInit /\ [][ShapeNext]_vars

\* ---------------------------------------------------------------------------
\* Extraction, merge of the extracted items, and extraction from the merged
\* document (extractionHelpers)
\* ---------------------------------------------------------------------------

\* how many groups of lines a document of the round trip is made of
MaxGroups == 3

RoundChunks ==
  { <<LineTermG>>,
    <<LineTermH>>,
    <<LineSlot0, ValueLine(<<SPACE, SPACE>>, <<48>>, <<97>>)>>,                 \*   0 .. "a"
    <<LineSlot1, ValueLine(<<SPACE, SPACE>>, <<49>>, <<99>>)>> }                \*   1 .. "c"

\* line ends of the file as read: LF, byte-order mark with CRLF, or a lone CR after the
\* first line and LF after the others
RoundStyles == {"lf", "bom-crlf", "cr-lf"}

RoundContent(chunks, style) ==
  LET lines == Flatten(chunks)
  IN IF style = "cr-lf" /\ Len(lines) > 1
     THEN lines[1] \o <<CR>> \o Join(Tail(lines), <<LF>>)
     ELSE FileContent(chunks, IF style = "cr-lf" THEN "lf" ELSE style)

RoundMaps ==
  { <<<<TermG, <<72, 105>>>>>>,                              \* G -> Hi
    <<<<TermG, <<97, QUOTE, 98>>>>>>,                        \* G -> a"b
    <<<<TermG, <<BACKSLASH, LF, TAB>>>>>>,                   \* G -> backslash, newline, tab
    <<<<TermH, <<72, 105>>>>, <<TermG, <<97>>>>>> }          \* H -> Hi, G -> a

RoundInputs ==
  { [content |-> RoundContent(chunks, style), targetIndex |-> t, translationMap |-> m] :
      chunks \in UNION { [1..n -> RoundChunks] : n \in 1..MaxGroups },
      style \in RoundStyles, t \in TargetIndexes, m \in RoundMaps }

RoundInit ==
  /\ RunnerInit
  /\ pin \in RoundInputs
  /\ pout = [step |-> 0, items |-> <<>>, updated |-> <<>>, count |-> 0, again |-> <<>>]

\* extractTermsChunked on the document as read
RoundExtract ==
  /\ pout.step = 0
  /\ pout' = [pout EXCEPT !.step = 1,
                          !.items = extractTermsChunked(pin.content, pin.targetIndex)]
  /\ UNCHANGED <<rvars, pin>>

\* applyTranslations on the same document with the extracted items
RoundMerge ==
  /\ pout.step = 1
  /\ LET r == applyTranslations_extraction(pin.content, pout.items, pin.translationMap)
     IN pout' = [pout EXCEPT !.step = 2, !.updated = r.updated, !.count = r.count]
  /\ UNCHANGED <<rvars, pin>>

\* extractTermsChunked on the merged document, same language slot
RoundExtractAgain ==
  /\ pout.step = 2
  /\ pout' = [pout EXCEPT !.step = 3,
                          !.again = extractTermsChunked(pout.updated, pin.targetIndex)]
  /\ UNCHANGED <<rvars, pin>>

RoundNext == RoundExtract \/ RoundMerge \/ RoundExtractAgain

SpecRound == RoundInit /\ [][RoundNext]_vars

\* C9 as stated: for the same content, items and translation map, the document in the
\* worker's REVERSE_RESULT reply is the document generateReversedContent returns in
\* process, for each of the two in-process implementations.
C9_WorkerMergeEqualsInProcess ==
  /\ (pout.worker # NotRun /\ pout.helpers # NotRun) => pout.worker = pout.helpers
  /\ (pout.worker # NotRun /\ pout.extraction # NotRun) => pout.worker = pout.extraction

\* the worker agrees with generateReversedContent of translationHelpers
WorkerEqualsTranslationHelpers ==
  (pout.worker # NotRun /\ pout.helpers # NotRun) => pout.worker = pout.helpers

\* the lines extraction numbers: those of the normalized document
DocLines == Split(normalizeFileContent(pin.content), LF)

\* an escaped literal decoded in one pass, an escape at a time
RECURSIVE Decode(_)
Decode(s) ==
  IF s = <<>> THEN s
  ELSE IF s[1] = BACKSLASH /\ Len(s) >= 2 /\ s[2] \in {110, 116, 114, QUOTE, BACKSLASH}
       THEN <<CASE s[2] = 110 -> LF [] s[2] = 116 -> TAB [] s[2] = 114 -> CR
                [] OTHER -> s[2]>> \o Decode(Drop(s, 2))
       ELSE <<s[1]>> \o Decode(Tail(s))

\* the text of a line up to and including its first quote
ThroughQuote(line) == Take(line, Span(line, (0..65535) \ {QUOTE}) + 1)

\* lines k, k+1, k+2 (from 0) are a term declaration, a slot line and a value line of
\* the target slot
TermSlotValueAt(k) ==
  /\ k + 2 < Len(DocLines)
  /\ TermMatch(Trim(DocLines[k + 1])).ok
  /\ BracketMatch(Trim(DocLines[k + 2])).ok
  /\ ParseInt(BracketMatch(Trim(DocLines[k + 2])).num) = pin.targetIndex
  /\ DataMatch(Trim(DocLines[k + 3])).ok
  /\ ParseInt(DataMatch(Trim(DocLines[k + 3])).indexStr) = pin.targetIndex

\* C10 as stated: a term declaration followed by a slot line and a value line of the
\* target slot yields an item with the declared label, the unescaped literal, the
\* zero-based index of the value line, and the value line's text up to and including
\* its opening quote as linePrefix.
C10_ExtractionItemFields ==
  pout.done =>
    \A k \in 0..(Len(DocLines) - 1) :
      TermSlotValueAt(k) =>
        \E n \in 1..Len(pout.items) :
          /\ pout.items[n].term = TermMatch(Trim(DocLines[k + 1])).label
          /\ pout.items[n].originalText = Decode(DataMatch(Trim(DocLines[k + 3])).dataStr)
          /\ pout.items[n].dataLineIndex = k + 2
          /\ pout.items[n].linePrefix = ThroughQuote(DocLines[k + 3])

\* line k (from 0) of the document is a term declaration
IsTermLine(k) == k < Len(DocLines) /\ TermMatch(Trim(DocLines[k + 1])).ok

\* lines j, j+1 (from 0) are a slot line and a value line of the target slot
SlotEntryAt(j) ==
  /\ j + 1 < Len(DocLines)
  /\ BracketMatch(Trim(DocLines[j + 1])).ok
  /\ DataMatch(Trim(DocLines[j + 2])).ok
  /\ ParseInt(DataMatch(Trim(DocLines[j + 2])).indexStr) = pin.targetIndex

\* the slot entries of the target slot that belong to the term declared at line k:
\* those after k with no other term declaration in between
EntriesOfTerm(k) ==
  { j \in (k + 1)..(Len(DocLines) - 1) :
      SlotEntryAt(j) /\ \A m \in (k + 1)..j : ~IsTermLine(m) }

\* the items extraction returned for the entries of the term declared at line k
ItemsOfTerm(k) ==
  { n \in 1..Len(pout.items) :
      \E j \in EntriesOfTerm(k) : pout.items[n].dataLineIndex = j + 1 }

SetMin(S) == CHOOSE x \in S : \A y \in S : x <= y

\* C11 as stated: a term with one or more slot entries for the target slot gives
\* exactly one item, taken from the first entry; later entries give no item.
C11_FirstMatchWins ==
  pout.done =>
    \A k \in 0..(Len(DocLines) - 1) :
      (IsTermLine(k) /\ EntriesOfTerm(k) # {}) =>
        /\ Cardinality(ItemsOfTerm(k)) = 1
        /\ \A n \in ItemsOfTerm(k) :
             pout.items[n].dataLineIndex = SetMin(EntriesOfTerm(k)) + 1

\* every item comes from a slot entry of the target slot that follows a declaration of
\* its term, and every term with such an entry has an item (extractionHelpers)
NoItemWithoutSlotEntry ==
  pout.done =>
    /\ \A n \in 1..Len(pout.items) :
         \E k \in 0..(Len(DocLines) - 1) :
           /\ IsTermLine(k)
           /\ n \in ItemsOfTerm(k)
           /\ pout.items[n].term = TermMatch(Trim(DocLines[k + 1])).label
    /\ \A k \in 0..(Len(DocLines) - 1) :
         (IsTermLine(k) /\ EntriesOfTerm(k) # {}) => ItemsOfTerm(k) # {}

\* C12 as stated: a term that never reaches a matching slot contributes nothing to the
\* result, so every returned item carries the value line it was taken from.
C12_NoItemWithoutSlot ==
  pout.done => \A n \in 1..Len(pout.items) : pout.items[n].dataLineIndex # Undefined

\* C13 as stated: for every extracted item, linePrefix, the escaped originalText and a
\* closing quote give back the line at dataLineIndex, whatever its indentation and
\* spacing; and linePrefix is that line up to its opening quote, so that a line
\* rewritten from it differs from the original only inside the quotes.
C13_PrefixReconstructsLine ==
  pout.done =>
    \A n \in 1..Len(pout.items) :
      LET item == pout.items[n]
          line == DocLines[item.dataLineIndex + 1]
      IN /\ item.linePrefix \o escapeTranslation_apply(item.originalText) \o <<QUOTE>> = line
         /\ item.linePrefix = ThroughQuote(line)

\* C14 as stated: unescaping, as extraction does, the result of escaping a text, as a
\* merge does, gives the text back.
C14_UnescapeInvertsEscape ==
  pout.unescaped # NotRun => pout.unescaped = pin.text

\* C15: with an empty translation mapping a merge returns the content unchanged and
\* an applied count of 0, whatever the items.
C15_EmptyMappingChangesNothing ==
  (pin.translationMap = <<>> /\ pout.impl # "none") =>
    (pout.first.updated = pin.content /\ pout.first.count = 0)

\* C15 witness: a merge ran with the empty mapping on the three-line document and an
\* item pointing at its value line.
C15_Witness ==
  /\ pin.translationMap = <<>>
  /\ pout.impl # "none"
  /\ pin.content = MergeDocument
  /\ \E n \in 1..Len(pin.extractedData) : pin.extractedData[n].dataLineIndex = 2

\* C16: with the items and a non-empty mapping unchanged, applying the mapping to the
\* output of a first application returns that output.
C16_MergeIdempotent ==
  (pin.translationMap # <<>> /\ pout.second # NoResult) =>
    pout.second.updated = pout.first.updated

\* C16 witness: the first application rewrote the document and the second one ran.
C16_Witness ==
  /\ pin.translationMap # <<>>
  /\ pout.second # NoResult
  /\ pout.first.updated # pin.content
  /\ pout.first.count > 0

\* the lines of the document before and after the first application
InLines == Split(pin.content, LF)
OutLines == Split(pout.first.updated, LF)

\* item n has a translation, a prefix and an index inside the document, and no later
\* item with a translation has the same index
ItemApplies(n) ==
  LET item == pin.extractedData[n]
  IN /\ Truthy(MapGet(pin.translationMap, item.term))
     /\ item.linePrefix # UndefinedStr
     /\ item.dataLineIndex # Undefined
     /\ item.dataLineIndex < Len(InLines)
     /\ \A m \in (n + 1)..Len(pin.extractedData) :
          \/ pin.extractedData[m].dataLineIndex # item.dataLineIndex
          \/ ~Truthy(MapGet(pin.translationMap, pin.extractedData[m].term))

\* C17 as stated: for each item with a mapping entry and an index inside the document,
\* an unshaped merge leaves linePrefix + escaped translation + closing quote at that
\* index.
C17_MergeWritesPrefixTextQuote ==
  pout.impl # "none" =>
    \A n \in 1..Len(pin.extractedData) :
      ItemApplies(n) =>
        LET item == pin.extractedData[n]
        IN OutLines[item.dataLineIndex + 1] =
             item.linePrefix
               \o escapeTranslation_apply(MapGet(pin.translationMap, item.term))
               \o <<QUOTE>>

Max2(a, b) == IF a >= b THEN a ELSE b

\* the indices at which the output and the input do not hold the same line
ChangedLines ==
  { k \in 1..Max2(Len(InLines), Len(OutLines)) :
      k > Len(InLines) \/ k > Len(OutLines) \/ InLines[k] # OutLines[k] }

\* C18 as stated: the applied count is the number of line indices whose content in
\* the output differs from the input.
C18_CountIsChangedLines ==
  pout.impl # "none" => pout.first.count = Cardinality(ChangedLines)

\* C19 as stated: a merge leaves the number of lines as it was, and every line that is
\* not the index of an item with a mapping entry as it was.
C19_NoLineInsertedOrDeleted ==
  pout.impl # "none" =>
    /\ Len(OutLines) = Len(InLines)
    /\ \A k \in 1..Len(InLines) :
         (\A n \in 1..Len(pin.extractedData) :
            \/ pin.extractedData[n].dataLineIndex # k - 1
            \/ ~MapHas(pin.translationMap, pin.extractedData[n].term))
         => OutLines[k] = InLines[k]

\* the entries of a map, whatever their order
EntrySet(map) == { map[n] : n \in 1..Len(map) }

\* the result holds one entry per term of the document, the last text given for it
ReadsPairs(result) ==
  result.ran => (result.returned /\ EntrySet(result.map) = EntrySet(NewMap(pin.pairs)))

\* C20 as stated: a JSON object gives one entry term -> text per key, and a JSON array
\* of {term, translation} records gives one entry term -> translation per record.
C20_JsonShapesAccepted ==
  pin.shape \in {"object", "array"} =>
    (ReadsPairs(pout.extraction) /\ ReadsPairs(pout.helpers))

\* the same for translationHelpers alone
HelpersReadsJson ==
  pin.shape \in {"object", "array"} => ReadsPairs(pout.helpers)

\* extractionHelpers reads the object shape
ExtractionReadsJsonObject ==
  pin.shape = "object" => ReadsPairs(pout.extraction)

\* the result holds, for each term of the document, the last text given for it
ReadsLinePairs(result) ==
  result.ran => EntrySet(result.map) = EntrySet(NewMap(pin.pairs))

\* C21 as stated: a #Term: line followed by a #Original: line gives the entry
\* label -> text, also when the text holds a comma or a tab.
C21_TaggedPairsRead ==
  pin.shape = "tagged" => (ReadsLinePairs(pout.extraction) /\ ReadsLinePairs(pout.helpers))

\* the same for translationHelpers alone
HelpersReadsTagged ==
  pin.shape = "tagged" => ReadsLinePairs(pout.helpers)

\* extractionHelpers reads no tagged pair at all
ExtractionReadsNoTagged ==
  (pin.shape = "tagged" /\ pout.extraction.ran) =>
    \A n \in 1..Len(pout.extraction.map) :
      \A k \in 1..Len(pin.pairs) : pout.extraction.map[n] # pin.pairs[k]

\* C22 as stated: a row written with escapeCSV for a (term, text) pair parses back to
\* that pair.
C22_CsvRowsRoundTrip ==
  pin.shape = "csv" => (ReadsLinePairs(pout.extraction) /\ ReadsLinePairs(pout.helpers))

\* extractionHelpers reads back the rows with no comma in the term and neither a tab
\* nor a quote in the text
ExtractionReadsPlainCsv ==
  (/\ pin.shape = "csv"
   /\ \A k \in 1..Len(pin.pairs) :
        /\ ~Includes(pin.pairs[k][1], COMMA)
        /\ ~Includes(pin.pairs[k][2], TAB)
        /\ ~Includes(pin.pairs[k][2], QUOTE))
    => ReadsLinePairs(pout.extraction)

\* translationHelpers reads back the rows whose two fields are both written in
\* quotes and hold no quote
HelpersReadsQuotedCsv ==
  (/\ pin.shape = "csv"
   /\ \A k \in 1..Len(pin.pairs) :
        /\ Includes(pin.pairs[k][1], COMMA)
        /\ Includes(pin.pairs[k][2], COMMA))
    => ReadsLinePairs(pout.helpers)

\* Latin letters, digits, punctuation and white space
NonScript == (32..126) \cup WhiteSpace

OnlyNonScript == \A k \in 1..Len(pin) : pin[k] \in NonScript

\* C23 as stated: a text made only of non-script characters comes back from
\* applyRTLFormatting unchanged.
C23_NonScriptUnchanged ==
  OnlyNonScript =>
    /\ (pout.helpers.ran => pout.helpers.out = pin)
    /\ (pout.rtl.ran => pout.rtl.out = pin)
    /\ (pout.part005.ran => pout.part005.out = pin)

\* the same for the three that shape by segments
SegmentShapersKeepNonScript ==
  OnlyNonScript =>
    /\ (pout.worker.ran => pout.worker.out = pin)
    /\ (pout.helpers.ran => pout.helpers.out = pin)
    /\ (pout.rtl.ran => pout.rtl.out = pin)

\* what the rule of C24 selects for place i of chars: 1 isolated, 2 final, 3 initial,
\* 4 medial
SelectedForm(forms, nonConnecting, chars, i) ==
  LET before == /\ i > 1
                /\ chars[i - 1] \in DOMAIN forms
                /\ chars[i - 1] \notin nonConnecting
      after == i < Len(chars) /\ chars[i + 1] \in DOMAIN forms
  IN CASE before /\ after -> 4
       [] before /\ ~after -> 2
       [] ~before /\ after -> 3
       [] OTHER -> 1

FollowsRule(result, forms, nonConnecting) ==
  result.ran =>
    \A i \in 1..Len(result.normalized) :
      LET char == result.normalized[i]
      IN char \in DOMAIN forms =>
           /\ result.shaped[i] = forms[char][SelectedForm(forms, nonConnecting,
                                                          result.normalized, i)]
           /\ (i > 1 /\ result.normalized[i - 1] \in nonConnecting) =>
                SelectedForm(forms, nonConnecting, result.normalized, i) \in {1, 3}

\* C24: a shaping-capable letter takes the medial, final, initial or isolated form
\* from its two immediate neighbours alone, a preceding neighbour connecting only when
\* it is shaping-capable and not non-connecting; the letter after a non-connecting
\* letter is given the isolated or the initial form.
C24_FormFromNeighbours ==
  /\ FollowsRule(pout.worker, presentationForms_worker, nonConnectors_worker)
  /\ FollowsRule(pout.rtl, presentationForms_rtl, nonConnectors_rtl)

\* C24 witness: lam, alef, lam shaped by both: the first lam takes its initial form,
\* the alef between two shaping-capable letters its medial entry, and the lam after
\* the non-connecting alef its isolated form.
C24_Witness ==
  /\ pin = <<1604, 1575, 1604>>
  /\ pout.worker.ran
  /\ pout.rtl.ran
  /\ pout.worker.shaped = <<65247, 65165, 65245>>
  /\ pout.rtl.shaped = <<65247, 65165, 65245>>

\* s with every maximal run of characters of the set script reversed in place
RunsReversed(s, script) ==
  [k \in 1..Len(s) |->
     IF s[k] \notin script THEN s[k]
     ELSE LET before == {j \in 1..(k - 1) : s[j] \notin script}
              after == {j \in (k + 1)..Len(s) : s[j] \notin script}
              a == IF before = {} THEN 1 ELSE MaxOf(before) + 1
              b == IF after = {} THEN Len(s) ELSE MinOf(after) - 1
          IN s[a + b - k]]

\* non-script characters keep their places and the length is kept
KeepsPlaces(result, script) ==
  /\ Len(result.out) = Len(pin)
  /\ \A k \in 1..Len(pin) : pin[k] \notin script => result.out[k] = pin[k]

\* C25: the shaped string is cut into maximal runs of script and of non-script
\* characters, each script run is reversed and the runs stay in their order; every
\* non-script character keeps its place and the number of code points is kept.
C25_ReversalIsRunLocal ==
  /\ pout.helpers.ran =>
       /\ pout.helpers.out = RunsReversed(pout.helpers.shaped, ArabicRanges)
       /\ KeepsPlaces(pout.helpers, ArabicRanges)
  /\ pout.rtl.ran =>
       /\ (pin # <<>> /\ isLikelyRTL(pin)) =>
            pout.rtl.out = RunsReversed(pout.rtl.shaped, RTLChars_rtl)
       /\ KeepsPlaces(pout.rtl, RTLChars_rtl)

\* C25 witness: "a", seen, lam shaped by both: the a keeps its place and the two shaped
\* letters change places.
C25_Witness ==
  /\ pin = <<97, 1587, 1604>>
  /\ pout.helpers.ran
  /\ pout.rtl.ran
  /\ pout.helpers.out = <<97, 65246, 65203>>
  /\ pout.rtl.out = <<97, 65246, 65203>>

\* C26: resolve or reject is invoked at most once on every call, whatever the order of
\* its reply, an error message, its timeout and the cleanup; once a call is settled no
\* later step changes its outcome or invokes resolve or reject on it again.
C26_SettledAtMostOnce ==
  /\ [](\A c \in Calls : settles[c] <= 1)
  /\ [][\A c \in Calls :
          status[c] \in Settled => (status'[c] = status[c] /\ settles'[c] = settles[c])]_vars

\* C26 witness: the only call timed out, its reply was delivered afterwards (it went to
\* the store), then the cleanup ran: the call was settled once, by the timeout.
C26_Witness ==
  /\ ncalls = 1
  /\ ~mounted
  /\ content = "reversed"
  /\ \E c \in Calls : status[c] = "timeout" /\ settles[c] = 1

\* onmessage is delivering a REVERSE_RESULT whose requestId has no registration
UnmatchedReverseResult ==
  /\ OnMessage
  /\ Head(fromWorker).type = "REVERSE_RESULT"
  /\ Head(fromWorker).requestId \notin DOMAIN resolvers

\* C27 as stated: a REVERSE_RESULT whose requestId matches no registration settles no
\* call and leaves the content of the store unchanged.
C27_UnmatchedReplyChangesNothing ==
  [][UnmatchedReverseResult =>
       /\ status' = status
       /\ settles' = settles
       /\ content' = content]_vars

\* the first half of C27 holds: such a reply settles no call and touches no registration
UnmatchedReplySettlesNothing ==
  [][UnmatchedReverseResult =>
       /\ status' = status
       /\ settles' = settles
       /\ resolvers' = resolvers
       /\ timers' = timers]_vars

\* C28: self.onmessage answers a GENERATE_REVERSED message with exactly one message, a
\* REVERSE_RESULT or an error, that carries the requestId of the message.
C28_OneReplyWithRequestId ==
  [][(WorkerStep /\ Head(toWorker).type = "GENERATE_REVERSED") =>
       /\ Len(fromWorker') = Len(fromWorker) + 1
       /\ SubSeq(fromWorker', 1, Len(fromWorker)) = fromWorker
       /\ fromWorker'[Len(fromWorker')].type \in {"REVERSE_RESULT", "error"}
       /\ fromWorker'[Len(fromWorker')].requestId = Head(toWorker).requestId
       /\ Head(toWorker).requestId # NoId]_vars

\* C28 witness: one call was rejected by the error message answering its request and
\* another was resolved by the REVERSE_RESULT answering its own.
C28_Witness ==
  \E c, d \in Calls : status[c] = "workerError" /\ status[d] = "resolved"

\* the terms and line positions of an item list, in order
Positions(items) ==
  [k \in 1..Len(items) |-> <<items[k].term, items[k].dataLineIndex>>]

\* C29 as stated: the items extracted from the merged document, for the same language
\* slot, have the same sequence of term and dataLineIndex as the items merged.
C29_PositionsSurviveMerge ==
  pout.step = 3 => Positions(pout.again) = Positions(pout.items)

\* the document has lone carriage returns: its lines as applyTranslations splits them
\* are not the lines extractTermsChunked numbers
HasLoneCR(c) ==
  \E k \in 1..Len(c) : c[k] = CR /\ (k = Len(c) \/ c[k + 1] # LF)

\* on documents without a lone CR the positions survive, also when lines were written
PositionsSurviveWithoutLoneCR ==
  (pout.step = 3 /\ ~HasLoneCR(pin.content)) => Positions(pout.again) = Positions(pout.items)

\* a merge that wrote two lines, and whose items are found again
RoundWritesAndKeeps ==
  pout.step = 3 /\ pout.count = 2 /\ Len(pout.items) = 2
    /\ Positions(pout.again) = Positions(pout.items)

\* no code point is an entry of two different letters of the table
DisjointForms(forms) ==
  \A c \in DOMAIN forms : \A d \in DOMAIN forms :
    c # d => {forms[c][k] : k \in 1..4} \cap {forms[d][k] : k \in 1..4} = {}

\* two different letters of the table are never shaped to the same character
ShapedApart(result, forms) ==
  result.ran =>
    \A i \in 1..Len(result.shaped) : \A j \in 1..Len(result.shaped) :
      (/\ result.normalized[i] \in DOMAIN forms
       /\ result.normalized[j] \in DOMAIN forms
       /\ result.normalized[i] # result.normalized[j])
        => result.shaped[i] # result.shaped[j]

\* C30 as stated: the presentation-form table gives different letters disjoint sets of
\* forms, so two different letters are never shaped to the same character.
C30_FormsDisjoint ==
  /\ DisjointForms(presentationForms_rtl)
  /\ DisjointForms(presentationForms_worker)
  /\ DisjointForms(presentationForms_helpers)
  /\ ShapedApart(pout.rtl, presentationForms_rtl)
  /\ ShapedApart(pout.worker, presentationForms_worker)
  /\ ShapedApart(pout.helpers, presentationForms_helpers)

\* the pairs of letters of a table that share a code point
SharedForms(forms) ==
  { p \in (DOMAIN forms) \X (DOMAIN forms) :
      /\ p[1] < p[2]
      /\ {forms[p[1]][k] : k \in 1..4} \cap {forms[p[2]][k] : k \in 1..4} # {} }

\* waw and heh are the one pair that shares code points, in each of the three tables
OnlyWawAndHehShare ==
  /\ SharedForms(presentationForms_rtl) = {<<1607, 1608>>}
  /\ SharedForms(presentationForms_worker) = {<<1607, 1608>>}
  /\ SharedForms(presentationForms_helpers) = {<<1607, 1608>>}

=============================================================================
